---------------------------- MODULE Spec2Model ----------------------------
(***************************************************************************)
(* Cosmic Drift (src/game.js): the Game object, its event handlers and the *)
(* frame loop, as a state machine.                                         *)
(*                                                                         *)
(* Units.  Wall-clock time is in whole milliseconds.  The normalised step  *)
(* dt = deltaTime / 16.67 is kept as the exact fraction                    *)
(* (deltaTime * 100) / DtDen, and every quantity the code accumulates in   *)
(* dt units (timers, ages, energy) is stored multiplied by DtDen, so that  *)
(* these are exact.  multiplier is stored in halves (2 = x1.0).  Positions *)
(* are in 1/Res pixel, velocities in 1/VRes pixel per tick; divisions      *)
(* truncate toward zero and the square root is the integer square root.    *)
(* A JavaScript NaN is the value NaN below: arithmetic propagates it and   *)
(* every comparison with it is false.                                      *)
(*                                                                         *)
(* Cosmetic state (particles, trails, stars, angle, pulse, rotation, DOM   *)
(* classes and texts) is left out: no handler reads it back.               *)
(***************************************************************************)
EXTENDS Integers, Sequences, FiniteSets, TLC

VARIABLES
    g,          \* the Game object (this.*), canvas size included
    now,        \* performance.now(), ms
    raf,        \* number of registered requestAnimationFrame(gameLoop) callbacks
    timeouts,   \* number of pending setTimeout callbacks of gameOver
    hist        \* history of the behaviour, read by the properties only

vars == <<g, now, raf, timeouts, hist>>

-----------------------------------------------------------------------------
(* Bounds of the model *)

\* display refreshes in a behaviour
MaxRefreshes == 2
\* handler calls in a behaviour, frame callbacks aside
MaxEvents == 2
\* handlers that would register one more frame callback are cut off here
MaxPending == 2
\* position units per pixel
Res == 10
\* velocity units per pixel-per-tick
VRes == 100

-----------------------------------------------------------------------------
(* Program constants *)

DtDen == 1667
MaxDelta == 50
MaxEnergy == 100
MaxMultiplier == 10
PlayerRadius == 15
GraceTicks == 120
ShieldTicks == 180
EnergyGain == 30
SpawnPeriod == 60
LevelPeriod == 1800
BasePoints == 100

\* unit vectors are kept in 1/Unit
Unit == 1000

NaN == 0 - 1000000000

NoPlayer == [none |-> TRUE]

Ships == {"speeder", "balanced", "tank"}

\* thrust in tenths, friction in hundredths
shipTypes ==
    [ speeder  |-> [maxSpeed |-> 12, thrust |-> 12, friction |-> 85, maxHP |-> 1, price |-> 100],
      balanced |-> [maxSpeed |-> 8,  thrust |-> 10, friction |-> 88, maxHP |-> 2, price |-> 400],
      tank     |-> [maxSpeed |-> 5,  thrust |-> 11, friction |-> 90, maxHP |-> 3, price |-> 600] ]

-----------------------------------------------------------------------------
(* Arithmetic *)

Min(a, b) == IF a < b THEN a ELSE b
Max(a, b) == IF a > b THEN a ELSE b

\* division truncating toward zero
TDiv(a, b) == IF a >= 0 THEN a \div b ELSE 0 - ((0 - a) \div b)

RECURSIVE SqrtIn(_, _, _)
SqrtIn(n, lo, hi) ==
    IF lo >= hi THEN lo
    ELSE LET mid == (lo + hi + 1) \div 2
         IN  IF mid * mid <= n THEN SqrtIn(n, mid, hi) ELSE SqrtIn(n, lo, mid - 1)

\* Math.sqrt, rounded down
ISqrt(n) == SqrtIn(n, 0, Min(n, 46340))

IsNaN(a) == a = NaN

\* Math.sqrt(dx*dx + dy*dy), Math.hypot(dx, dy)
Hypot(dx, dy) == IF IsNaN(dx) \/ IsNaN(dy) THEN NaN ELSE ISqrt(dx * dx + dy * dy)

Sub(a, b) == IF IsNaN(a) \/ IsNaN(b) THEN NaN ELSE a - b
Add(a, b) == IF IsNaN(a) \/ IsNaN(b) THEN NaN ELSE a + b
Lt(a, b) == ~IsNaN(a) /\ ~IsNaN(b) /\ a < b
Gt(a, b) == ~IsNaN(a) /\ ~IsNaN(b) /\ a > b

\* (d / dist) in 1/Unit; 0/0 is NaN
UnitOf(d, dist) ==
    IF IsNaN(d) \/ IsNaN(dist) \/ dist = 0 THEN NaN ELSE TDiv(d * Unit, dist)

\* dt = deltaTime / 16.67, times DtDen
DtOf(deltaTime) == deltaTime * 100

\* v * dt for a velocity in 1/VRes, as a displacement in 1/Res
Step(v, dtn) == IF IsNaN(v) THEN NaN ELSE TDiv(TDiv(v * dtn, DtDen) * Res, VRes)


-----------------------------------------------------------------------------
(* Inputs the environment can supply *)

\* window.innerWidth x window.innerHeight, pixels
Sizes == { <<300, 300>>, <<100, 100>> }

\* pointer positions on the canvas, pixels
MousePoints == { <<0, 0>>, <<150, 150>> }

\* ms between two display refreshes: a nominal frame and a stall
Gaps == { 17, 200 }

\* what localStorage holds when the page loads: coins, unlocked ships
Stored ==
    { [coins |-> 0, unlockedShips |-> <<"speeder">>],
      [coins |-> 450, unlockedShips |-> <<"speeder", "tank">>] }

\* Math.random() in thousandths, as the hazard placement uses it
HoleFracs == { 500, 800 }
HoleFracsY == { 500 }

\* the other random properties of a new hazard: 30 + random * 20 and so on
HoleKinds ==
    { [radius |-> 40, pullRadius |-> 150, maxLifetime |-> 500, shootInterval |-> 120] }

\* the Math.random() values of one spawnCollectible(), in thousandths
CollDraws ==
    { [edge |-> 0, pos |-> 500, type |-> 100, tx |-> 500, ty |-> 500, speed |-> 500],
      [edge |-> 1, pos |-> 500, type |-> 800, tx |-> 500, ty |-> 500, speed |-> 999] }

\* <<sin, cos>> of Date.now() * 0.001 in thousandths
PatrolPhases == { <<0, 1000>>, <<1000, 0>> }

\* Math.random() * 80 of line 862
Jitters == { 0, 79 }

\* the coins of a points item, line 984
CoinDraws == { 1, 3 }

\* the draws of an update() that uses none
NoDraw ==
    [ hole |-> FALSE, hx |-> 500, hy |-> 500, kind |-> CHOOSE k \in HoleKinds : TRUE,
      coins |-> 1, jitter |-> 0, second |-> FALSE,
      c1 |-> CHOOSE c \in CollDraws : TRUE, c2 |-> CHOOSE c \in CollDraws : TRUE,
      patrol |-> <<0, 1000>> ]

-----------------------------------------------------------------------------
(* The Game object *)

\* constructor, lines 24-102, with init()'s resize()
NewGame(size, stored) ==
    [ isRunning |-> FALSE, isPaused |-> FALSE,
      score |-> 0, level |-> 1, multiplier |-> 2, energy |-> MaxEnergy * DtDen,
      highScore |-> 0,
      keysSpace |-> FALSE, mouseX |-> 0, mouseY |-> 0, mouseDown |-> FALSE,
      player |-> NoPlayer,
      collectibles |-> <<>>, blackHoles |-> <<>>, bullets |-> <<>>,
      botEnabled |-> FALSE,
      lastTime |-> 0, deltaTime |-> 0, spawnTimer |-> 0, difficultyTimer |-> 0,
      selectedShip |-> "speeder", hp |-> 1, maxHP |-> 1,
      coins |-> stored.coins, unlockedShips |-> stored.unlockedShips,
      sessionCoins |-> 0,
      width |-> size[1], height |-> size[2] ]

\* what the properties read of the behaviour so far.  Of the last step: the
\* update() calls it made (ticks), the frame callbacks that returned at line
\* 1310 (skipped), and where update() called gameOver() (cause).  Of the last
\* update(): the elapsed time line 1313 measured (raw), and the time the run
\* had spent unpaused (activeSeen) and paused (pausedSeen) since the update()
\* before it.  overs: the gameOver() calls since the last startGame().
\* refreshes and events count the steps taken.  held: the pointer button or
\* a touch is down, by the mousedown, touchstart, mouseup and touchend events
\* so far.
NewHist ==
    [ ticks |-> 0, skipped |-> 0, cause |-> "none", overs |-> 0,
      raw |-> 0, active |-> 0, activeSeen |-> 0, paused |-> 0, pausedSeen |-> 0,
      refreshes |-> 0, events |-> 0, held |-> FALSE ]

HasPlayer(gg) == gg.player # NoPlayer

\* createPlayer(), lines 322-346
createPlayer(gg) ==
    LET shipType == shipTypes[gg.selectedShip]
    IN  [ gg EXCEPT
            !.maxHP = shipType.maxHP,
            !.hp = shipType.maxHP,
            !.player =
              [ x |-> TDiv(gg.width * Res, 2), y |-> TDiv(gg.height * Res, 2),
                vx |-> 0, vy |-> 0, radius |-> PlayerRadius,
                thrust |-> shipType.thrust, maxSpeed |-> shipType.maxSpeed,
                friction |-> shipType.friction,
                boosting |-> FALSE, invincible |-> FALSE, invincibleTimer |-> 0,
                shipType |-> gg.selectedShip ] ]

\* takeDamage() without the return of line 380: death is never reported
takeDamageUnreported(gg) ==
    IF gg.player.invincible THEN [g |-> gg, dead |-> FALSE]
    ELSE [ g |-> [gg EXCEPT !.hp = gg.hp - 1,
                            !.player.invincible = gg.hp - 1 > 0,
                            !.player.invincibleTimer = GraceTicks * DtDen],
           dead |-> FALSE ]

\* takeDamage() without the test of line 364
takeDamageAlways(gg) ==
    IF gg.hp - 1 <= 0 THEN [g |-> [gg EXCEPT !.hp = gg.hp - 1], dead |-> TRUE]
    ELSE [ g |-> [gg EXCEPT !.hp = gg.hp - 1,
                            !.player.invincible = TRUE,
                            !.player.invincibleTimer = GraceTicks * DtDen],
           dead |-> FALSE ]

\* takeDamage(), lines 363-388: the game after it and what it returns
takeDamage(gg) ==
    IF gg.player.invincible THEN [g |-> gg, dead |-> FALSE]
    ELSE IF gg.hp - 1 <= 0 THEN [g |-> [gg EXCEPT !.hp = gg.hp - 1], dead |-> TRUE]
    ELSE [ g |-> [gg EXCEPT !.hp = gg.hp - 1,
                            !.player.invincible = TRUE,
                            !.player.invincibleTimer = GraceTicks * DtDen],
           dead |-> FALSE ]

\* addCoins() without line 243: the session's coins are not counted
addCoinsUncounted(gg, amount) == [gg EXCEPT !.coins = gg.coins + amount]

\* addCoins(), lines 241-251
addCoins(gg, amount) ==
    [gg EXCEPT !.coins = gg.coins + amount, !.sessionCoins = gg.sessionCoins + amount]

\* this.multiplier + 0.5 without the Math.min
RaisedUncapped(m) == m + 1

\* Math.min(this.multiplier + 0.5, 10), lines 958 and 990, in halves
RaisedMultiplier(m) == Min(m + 1, MaxMultiplier * 2)

\* Math.min(100, this.energy + 30), line 976
RaisedEnergy(e) == Min(MaxEnergy * DtDen, e + EnergyGain * DtDen)

\* collectItem(), lines 971-1002; coinsEarned is the draw of line 984
collectItem(gg, item, coinsEarned) ==
    CASE item.type = "energy" ->
           [gg EXCEPT !.energy = RaisedEnergy(gg.energy),
                      !.score = gg.score + (BasePoints * gg.multiplier) \div 4]
      [] item.type = "points" ->
           addCoins([gg EXCEPT !.score = gg.score + (BasePoints * gg.multiplier) \div 2],
                    coinsEarned)
      [] item.type = "multiplier" ->
           LET m == RaisedMultiplier(gg.multiplier)
           IN  [gg EXCEPT !.multiplier = m,
                          !.score = gg.score + (BasePoints * 3 * m) \div 8]
      [] item.type = "shield" ->
           [gg EXCEPT !.player.invincible = TRUE,
                      !.player.invincibleTimer = ShieldTicks * DtDen,
                      !.score = gg.score + (BasePoints * gg.multiplier) \div 4]
      [] OTHER -> gg

-----------------------------------------------------------------------------
(* update(): the player *)

\* line 742
Boosting(gg) == (gg.mouseDown \/ gg.keysSpace) /\ gg.energy > 0

\* lines 745-749 without the Math.max(0, ...)
EnergyUnfloored(energy, boosting, dtn) ==
    IF boosting THEN energy - dtn \div 2
    ELSE Min(MaxEnergy * DtDen, energy + dtn \div 10)

\* lines 745-749: 0.5 * dt drained, 0.1 * dt regained
EnergyAfter(energy, boosting, dtn) ==
    IF boosting THEN Max(0, energy - dtn \div 2)
    ELSE Min(MaxEnergy * DtDen, energy + dtn \div 10)

\* lines 735-754, one axis: ax * accelFactor * dt in 1/VRes, where ax is
\* d / distToMouse outside the dead zone and accelFactor is
\* Math.min(distToMouse / 100, 1) * thrust * thrustMult (in 1/100)
Accel(d, distToMouse, thrust, thrustMult, dtn) ==
    IF IsNaN(distToMouse) THEN NaN
    ELSE IF ~(distToMouse > 5 * Res) THEN 0
    ELSE TDiv(TDiv(TDiv(UnitOf(d, distToMouse) * Min(distToMouse, 100 * Res), 100 * Res)
                       * thrust * thrustMult * dtn, DtDen) * VRes, Unit * 100)

\* lines 741-754 for the distance and the boost of lines 732 and 742
Thrusted(gg, dtn, distToMouse, boosting) ==
    [ gg EXCEPT
        !.player.boosting = boosting,
        !.energy = EnergyAfter(gg.energy, boosting, dtn),
        !.player.vx = Add(gg.player.vx,
                          Accel(Sub(gg.mouseX, gg.player.x), distToMouse, gg.player.thrust,
                                IF boosting THEN 25 ELSE 10, dtn)),
        !.player.vy = Add(gg.player.vy,
                          Accel(Sub(gg.mouseY, gg.player.y), distToMouse, gg.player.thrust,
                                IF boosting THEN 25 ELSE 10, dtn)) ]

\* lines 729-754: acceleration towards the pointer
Thrust(gg, dtn) ==
    Thrusted(gg, dtn,
             Hypot(Sub(gg.mouseX, gg.player.x), Sub(gg.mouseY, gg.player.y)),
             Boosting(gg))

\* lines 758-760
HoleDist(gg, hole) == Hypot(Sub(hole.x, gg.player.x), Sub(hole.y, gg.player.y))

\* line 763: strength * (1 - dist / pullRadius) * dt, in 1/10000
Force(hole, dist, dtn) ==
    TDiv(TDiv(hole.strength * 100 * (hole.pullRadius * Res - dist),
              hole.pullRadius * Res) * dtn, DtDen)

\* lines 764-765, one axis: (d / dist) * force, in 1/VRes
PullOn(d, dist, force) ==
    IF IsNaN(UnitOf(d, dist)) THEN NaN
    ELSE TDiv(UnitOf(d, dist) * force * VRes, Unit * 10000)

\* lines 762-766 without the test of line 762
PullUnbounded(gg, hole, dtn, dist) ==
    [ gg EXCEPT
        !.player.vx = Add(gg.player.vx,
                          PullOn(Sub(hole.x, gg.player.x), dist, Force(hole, dist, dtn))),
        !.player.vy = Add(gg.player.vy,
                          PullOn(Sub(hole.y, gg.player.y), dist, Force(hole, dist, dtn))) ]

\* lines 762-766: the pull of one hazard at distance dist
Pull(gg, hole, dtn, dist) ==
    IF Lt(dist, hole.pullRadius * Res)
    THEN [ gg EXCEPT
             !.player.vx = Add(gg.player.vx,
                               PullOn(Sub(hole.x, gg.player.x), dist, Force(hole, dist, dtn))),
             !.player.vy = Add(gg.player.vy,
                               PullOn(Sub(hole.y, gg.player.y), dist, Force(hole, dist, dtn))) ]
    ELSE gg

\* lines 769-774: the contact with one hazard; dead when takeDamage()
\* returned true
Contact(gg, hole, dist) ==
    IF Lt(dist, hole.radius * Res) /\ ~gg.player.invincible
    THEN takeDamage(gg)
    ELSE [g |-> gg, dead |-> FALSE]

\* lines 757-775, one iteration
HoleIteration(gg, hole, dtn, dist) == Contact(Pull(gg, hole, dtn, dist), hole, dist)

\* lines 757-775: the loop over the hazards, from hazard i on; update()
\* returns from inside it once dead
RECURSIVE Gravity(_, _, _)
Gravity(d, i, dtn) ==
    IF d.dead \/ i > Len(d.g.blackHoles) THEN d
    ELSE Gravity(HoleIteration(d.g, d.g.blackHoles[i], dtn, HoleDist(d.g, d.g.blackHoles[i])),
                 i + 1, dtn)

\* lines 778-779, one component
Friction(v, friction) == IF IsNaN(v) THEN NaN ELSE TDiv(v * friction, 100)

Slowed(gg) ==
    [ gg EXCEPT !.player.vx = Friction(gg.player.vx, gg.player.friction),
                !.player.vy = Friction(gg.player.vy, gg.player.friction) ]

\* line 783, in 1/VRes
SpeedLimit(p) ==
    IF p.boosting THEN TDiv(p.maxSpeed * VRes * 3, 2) ELSE p.maxSpeed * VRes

\* lines 785-788, one component
Clamped(v, speed, maxSpeed) ==
    IF Gt(speed, maxSpeed) THEN TDiv(v * maxSpeed, speed) ELSE v

ClampedTo(gg, speed, maxSpeed) ==
    [ gg EXCEPT !.player.vx = Clamped(gg.player.vx, speed, maxSpeed),
                !.player.vy = Clamped(gg.player.vy, speed, maxSpeed) ]

\* lines 781-788
Clamp(gg) == ClampedTo(gg, Hypot(gg.player.vx, gg.player.vy), SpeedLimit(gg.player))

\* lines 800-801 or 802-803: the two tests of one axis, one after the other;
\* extent is the canvas width or height
WrappedHigh(x, extent, margin) ==
    IF Gt(x, (extent + margin) * Res) THEN 0 - margin * Res ELSE x

Wrapped(x, extent, margin) ==
    WrappedHigh(IF Lt(x, 0 - margin * Res) THEN (extent + margin) * Res ELSE x,
                extent, margin)

\* lines 791-804: move, wrap
Moved(gg, dtn) ==
    [ gg EXCEPT
        !.player.x = Wrapped(Add(gg.player.x, Step(gg.player.vx, dtn)),
                             gg.width, gg.player.radius),
        !.player.y = Wrapped(Add(gg.player.y, Step(gg.player.vy, dtn)),
                             gg.height, gg.player.radius) ]

\* lines 806-812: the invincibility timer
Timed(gg, dtn) ==
    IF gg.player.invincible
    THEN [ gg EXCEPT !.player.invincibleTimer = gg.player.invincibleTimer - dtn,
                     !.player.invincible = ~(gg.player.invincibleTimer - dtn <= 0) ]
    ELSE gg

\* lines 777-812: friction, clamp, move, wrap, invincibility timer
MovePlayer(gg, dtn) == Timed(Moved(Clamp(Slowed(gg)), dtn), dtn)

-----------------------------------------------------------------------------
(* update(): collectibles, hazards, projectiles *)

\* Array.prototype.splice(i, 1)
Spliced(seq, i) == SubSeq(seq, 1, i - 1) \o SubSeq(seq, i + 1, Len(seq))

\* lines 845-846 and 903-904: more than 50 pixels outside the canvas
OutOfBounds(gg, x, y) ==
    \/ Lt(x, 0 - 50 * Res) \/ Gt(x, (gg.width + 50) * Res)
    \/ Lt(y, 0 - 50 * Res) \/ Gt(y, (gg.height + 50) * Res)

\* lines 827-831
MovedItem(c, dtn) ==
    [ c EXCEPT !.x = Add(c.x, Step(c.vx, dtn)),
               !.y = Add(c.y, Step(c.vy, dtn)),
               !.lifetime = c.lifetime + dtn ]

\* lines 833-849 without the lifetime test of line 847
CollectibleAtUnaged(gg, i, c, coinsEarned) ==
    IF Lt(Hypot(Sub(gg.player.x, c.x), Sub(gg.player.y, c.y)),
          (gg.player.radius + c.radius) * Res)
    THEN [ collectItem(gg, c, coinsEarned) EXCEPT
             !.collectibles = Spliced(gg.collectibles, i) ]
    ELSE IF OutOfBounds(gg, c.x, c.y)
    THEN [gg EXCEPT !.collectibles = Spliced(gg.collectibles, i)]
    ELSE [gg EXCEPT !.collectibles[i] = c]

\* lines 833-849 with the collection gated like the projectile contact of
\* line 890
CollectibleAtGated(gg, i, c, coinsEarned) ==
    IF /\ Lt(Hypot(Sub(gg.player.x, c.x), Sub(gg.player.y, c.y)),
             (gg.player.radius + c.radius) * Res)
       /\ ~gg.player.invincible
    THEN [ collectItem(gg, c, coinsEarned) EXCEPT
             !.collectibles = Spliced(gg.collectibles, i) ]
    ELSE IF OutOfBounds(gg, c.x, c.y) \/ c.lifetime > 600 * DtDen
    THEN [gg EXCEPT !.collectibles = Spliced(gg.collectibles, i)]
    ELSE [gg EXCEPT !.collectibles[i] = c]

\* lines 833-849 for collectible i, moved to c
CollectibleAt(gg, i, c, coinsEarned) ==
    IF Lt(Hypot(Sub(gg.player.x, c.x), Sub(gg.player.y, c.y)),
          (gg.player.radius + c.radius) * Res)
    THEN [ collectItem(gg, c, coinsEarned) EXCEPT
             !.collectibles = Spliced(gg.collectibles, i) ]
    ELSE IF OutOfBounds(gg, c.x, c.y) \/ c.lifetime > 600 * DtDen
    THEN [gg EXCEPT !.collectibles = Spliced(gg.collectibles, i)]
    ELSE [gg EXCEPT !.collectibles[i] = c]

\* lines 825-850: the backward loop over the collectibles, from index i down
RECURSIVE Collectibles(_, _, _, _)
Collectibles(gg, i, dtn, coinsEarned) ==
    IF i = 0 THEN gg
    ELSE Collectibles(CollectibleAt(gg, i, MovedItem(gg.collectibles[i], dtn), coinsEarned),
                      i - 1, dtn, coinsEarned)

AllCollectibles(gg, dtn, coinsEarned) ==
    Collectibles(gg, Len(gg.collectibles), dtn, coinsEarned)

\* lines 475-476, one component: (d / dist) * speed
Aimed(d, dist, speed) ==
    IF IsNaN(UnitOf(d, dist)) THEN NaN ELSE TDiv(UnitOf(d, dist) * speed, Unit)

\* lines 469-479; speed is 4 + level * 0.3, in 1/VRes
BulletFrom(gg, hole, dist) ==
    [ gg EXCEPT !.bullets = Append(gg.bullets,
        [ x |-> hole.x, y |-> hole.y,
          vx |-> Aimed(Sub(gg.player.x, hole.x), dist, TDiv((40 + gg.level * 3) * VRes, 10)),
          vy |-> Aimed(Sub(gg.player.y, hole.y), dist, TDiv((40 + gg.level * 3) * VRes, 10)),
          radius |-> 6, life |-> 300 * DtDen ]) ]

\* spawnBullet(), lines 462-480
spawnBullet(gg, hole) ==
    IF ~HasPlayer(gg) THEN gg
    ELSE BulletFrom(gg, hole, Hypot(Sub(gg.player.x, hole.x), Sub(gg.player.y, hole.y)))

\* lines 862-863: the next interval, for Math.random() * 80 = jitter
NextInterval(level, jitter) == Max(40, 100 + jitter - level * 5) * DtDen

\* lines 855-856
Aged(hole, dtn) ==
    [ hole EXCEPT !.lifetime = hole.lifetime + dtn, !.shootTimer = hole.shootTimer + dtn ]

\* lines 859-864 for hazard i, aged to hole
Shooting(gg, i, hole, jitter) ==
    IF hole.shootTimer >= hole.shootInterval
    THEN spawnBullet(
           [ gg EXCEPT !.blackHoles[i] =
               [ hole EXCEPT !.shootTimer = 0,
                             !.shootInterval = NextInterval(gg.level, jitter) ] ],
           hole)
    ELSE [gg EXCEPT !.blackHoles[i] = hole]

\* lines 866-868
Expiring(gg, i) ==
    IF gg.blackHoles[i].lifetime > gg.blackHoles[i].maxLifetime
    THEN [gg EXCEPT !.blackHoles = Spliced(gg.blackHoles, i)]
    ELSE gg

\* lines 852-870: the backward loop over the hazards, from index i down
RECURSIVE BlackHoles(_, _, _, _)
BlackHoles(gg, i, dtn, jitter) ==
    IF i = 0 THEN gg
    ELSE BlackHoles(Expiring(Shooting(gg, i, Aged(gg.blackHoles[i], dtn), jitter), i),
                    i - 1, dtn, jitter)

AllBlackHoles(gg, dtn, jitter) == BlackHoles(gg, Len(gg.blackHoles), dtn, jitter)

\* lines 880-881 without line 882
MovedBulletAgeless(b, dtn) ==
    [ b EXCEPT !.x = Add(b.x, Step(b.vx, dtn)),
               !.y = Add(b.y, Step(b.vy, dtn)) ]

\* lines 880-882
MovedBullet(b, dtn) ==
    [ b EXCEPT !.x = Add(b.x, Step(b.vx, dtn)),
               !.y = Add(b.y, Step(b.vy, dtn)),
               !.life = b.life - dtn ]

\* lines 885-906 without the invincible test of line 890
BulletAtSolid(gg, i, b) ==
    IF Lt(Hypot(Sub(gg.player.x, b.x), Sub(gg.player.y, b.y)),
          (gg.player.radius + b.radius) * Res)
    THEN takeDamage([gg EXCEPT !.bullets = Spliced(gg.bullets, i)])
    ELSE [ g |-> IF b.life <= 0 \/ OutOfBounds(gg, b.x, b.y)
                 THEN [gg EXCEPT !.bullets = Spliced(gg.bullets, i)]
                 ELSE [gg EXCEPT !.bullets[i] = b],
           dead |-> FALSE ]

\* lines 885-906 for projectile i, moved to b; dead when takeDamage()
\* returned true
BulletAt(gg, i, b) ==
    IF /\ Lt(Hypot(Sub(gg.player.x, b.x), Sub(gg.player.y, b.y)),
             (gg.player.radius + b.radius) * Res)
       /\ ~gg.player.invincible
    THEN takeDamage([gg EXCEPT !.bullets = Spliced(gg.bullets, i)])
    ELSE [ g |-> IF b.life <= 0 \/ OutOfBounds(gg, b.x, b.y)
                 THEN [gg EXCEPT !.bullets = Spliced(gg.bullets, i)]
                 ELSE [gg EXCEPT !.bullets[i] = b],
           dead |-> FALSE ]

\* lines 872-907: the backward loop over the projectiles, from index i down;
\* update() returns from inside it once dead
RECURSIVE Bullets(_, _, _)
Bullets(d, i, dtn) ==
    IF d.dead \/ i = 0 THEN d
    ELSE Bullets(BulletAt(d.g, i, MovedBullet(d.g.bullets[i], dtn)), i - 1, dtn)

AllBullets(gg, dtn) == Bullets([g |-> gg, dead |-> FALSE], Len(gg.bullets), dtn)

-----------------------------------------------------------------------------
(* Spawning *)

\* lines 401-412: the category for Math.random() = random (in thousandths),
\* by the loop over the weights from index i on
RECURSIVE PickType(_, _)
PickType(random, i) ==
    IF i > 4 THEN "energy"
    ELSE IF random < <<400, 350, 150, 100>>[i]
    THEN <<"energy", "points", "multiplier", "shield">>[i]
    ELSE PickType(random - <<400, 350, 150, 100>>[i], i + 1)

\* lines 394-399: where the collectible enters; c holds the Math.random()
\* values of spawnCollectible() in thousandths, edge excepted
EdgePoint(gg, c) ==
    CASE c.edge = 0 -> <<TDiv(c.pos * gg.width * Res, 1000), 0 - 30 * Res>>
      [] c.edge = 1 -> <<(gg.width + 30) * Res, TDiv(c.pos * gg.height * Res, 1000)>>
      [] c.edge = 2 -> <<TDiv(c.pos * gg.width * Res, 1000), (gg.height + 30) * Res>>
      [] OTHER -> <<0 - 30 * Res, TDiv(c.pos * gg.height * Res, 1000)>>

\* lines 415-416
TargetPoint(gg, c) ==
    << TDiv(gg.width * Res * (200 + TDiv(c.tx * 6, 10)), 1000),
       TDiv(gg.height * Res * (200 + TDiv(c.ty * 6, 10)), 1000) >>

\* lines 421-431 with the type of line 404: the loop of lines 406-412 never
\* replaces it
LaunchedFirst(gg, c, from, d, dist) ==
    [ gg EXCEPT !.collectibles = Append(gg.collectibles,
        [ x |-> from[1], y |-> from[2],
          vx |-> Aimed(d[1], dist, TDiv((1000 + 2 * c.speed) * VRes, 1000)),
          vy |-> Aimed(d[2], dist, TDiv((1000 + 2 * c.speed) * VRes, 1000)),
          radius |-> 12, type |-> "energy", lifetime |-> 0 ]) ]

\* lines 421-431 for the offset d to the target, dist long
Launched(gg, c, from, d, dist) ==
    [ gg EXCEPT !.collectibles = Append(gg.collectibles,
        [ x |-> from[1], y |-> from[2],
          vx |-> Aimed(d[1], dist, TDiv((1000 + 2 * c.speed) * VRes, 1000)),
          vy |-> Aimed(d[2], dist, TDiv((1000 + 2 * c.speed) * VRes, 1000)),
          radius |-> 12, type |-> PickType(c.type, 1), lifetime |-> 0 ]) ]

\* lines 418-420
Towards(gg, c, from, d) == Launched(gg, c, from, d, Hypot(d[1], d[2]))

Between(gg, c, from, to) == Towards(gg, c, from, <<to[1] - from[1], to[2] - from[2]>>)

\* spawnCollectible(), lines 390-432
spawnCollectible(gg, c) == Between(gg, c, EdgePoint(gg, c), TargetPoint(gg, c))

\* lines 440-441: margin + Math.random() * (extent - margin * 2)
HoleCoord(frac, extent) == TDiv(100 * Res * 1000 + frac * (extent - 200) * Res, 1000)

\* spawnBlackHole(), lines 434-460, for the sample (r.hx, r.hy) the do-while
\* stops at: any sample can be that one, either far enough from the player
\* or, after 49 samples like it, the 50th
spawnBlackHole(gg, r) ==
    [ gg EXCEPT !.blackHoles = Append(gg.blackHoles,
        [ x |-> HoleCoord(r.hx, gg.width), y |-> HoleCoord(r.hy, gg.height),
          radius |-> r.kind.radius, pullRadius |-> r.kind.pullRadius,
          strength |-> 30 + gg.level * 5,
          lifetime |-> 0, maxLifetime |-> r.kind.maxLifetime * DtDen,
          shootTimer |-> 0, shootInterval |-> r.kind.shootInterval * DtDen ]) ]

\* the do-while of lines 439-447 from attempt n on, for the Math.random()
\* pairs pts[1], pts[2], ... (thousandths): the pair it stops at and the
\* attempts made
RECURSIVE Sampling(_, _, _)
Sampling(gg, pts, n) ==
    IF /\ n < 50
       /\ HasPlayer(gg)
       /\ Lt(Hypot(Sub(HoleCoord(pts[n][1], gg.width), gg.player.x),
                   Sub(HoleCoord(pts[n][2], gg.height), gg.player.y)), 200 * Res)
    THEN Sampling(gg, pts, n + 1)
    ELSE [hx |-> pts[n][1], hy |-> pts[n][2], attempts |-> n]

\* line 948
HoleCap(level) == Min(3 + level \div 2, 8)

\* lines 935-936
Timers(gg, dtn) ==
    [ gg EXCEPT !.spawnTimer = gg.spawnTimer + dtn,
                !.difficultyTimer = gg.difficultyTimer + dtn ]

\* lines 942-944
SecondCollectible(gg, r) == IF r.second THEN spawnCollectible(gg, r.c2) ELSE gg

\* lines 938-945 with >= for the > of line 938
SpawnCollectiblesAt(gg, r) ==
    IF gg.spawnTimer >= SpawnPeriod * DtDen
    THEN SecondCollectible(spawnCollectible([gg EXCEPT !.spawnTimer = 0], r.c1), r)
    ELSE gg

\* lines 938-945
SpawnCollectibles(gg, r) ==
    IF gg.spawnTimer > SpawnPeriod * DtDen
    THEN SecondCollectible(spawnCollectible([gg EXCEPT !.spawnTimer = 0], r.c1), r)
    ELSE gg

SpawnHoleUncapped(gg, r) ==
    IF r.hole THEN spawnBlackHole(gg, r) ELSE gg

\* lines 948-952
SpawnHole(gg, r) ==
    IF Len(gg.blackHoles) < HoleCap(gg.level) /\ r.hole THEN spawnBlackHole(gg, r) ELSE gg

\* lines 934-952: the timers, the collectible spawn, the hazard spawn
Spawning(gg, dtn, r) == SpawnHole(SpawnCollectibles(Timers(gg, dtn), r), r)

\* lines 954-962 with >= for the > of line 955
LevelUpAt(gg) ==
    IF gg.difficultyTimer >= LevelPeriod * DtDen
    THEN [gg EXCEPT !.difficultyTimer = 0, !.level = gg.level + 1,
                    !.multiplier = RaisedMultiplier(gg.multiplier)]
    ELSE gg

\* lines 954-962
LevelUp(gg) ==
    IF gg.difficultyTimer > LevelPeriod * DtDen
    THEN [gg EXCEPT !.difficultyTimer = 0, !.level = gg.level + 1,
                    !.multiplier = RaisedMultiplier(gg.multiplier)]
    ELSE gg

-----------------------------------------------------------------------------
(* The bot *)

\* lines 505-510: what one hazard adds to dangerScore, in 1/Res
HoleDangerAt(hole, holeDist) ==
    IF Lt(holeDist, hole.pullRadius * Res) THEN (hole.pullRadius * Res - holeDist) * 2 ELSE 0

RECURSIVE HoleDanger(_, _, _)
HoleDanger(gg, c, i) ==
    IF i > Len(gg.blackHoles) THEN 0
    ELSE HoleDangerAt(gg.blackHoles[i],
                      Hypot(Sub(c.x, gg.blackHoles[i].x), Sub(c.y, gg.blackHoles[i].y)))
         + HoleDanger(gg, c, i + 1)

\* lines 513-518
RECURSIVE BulletDanger(_, _, _)
BulletDanger(gg, c, i) ==
    IF i > Len(gg.bullets) THEN 0
    ELSE (IF Lt(Hypot(Sub(c.x, gg.bullets[i].x), Sub(c.y, gg.bullets[i].y)), 80 * Res)
          THEN 100 * Res ELSE 0)
         + BulletDanger(gg, c, i + 1)

\* lines 521-525
TypeBonus(gg, c) ==
    CASE c.type = "shield" -> 200
      [] c.type = "multiplier" -> 150
      [] c.type = "energy" /\ gg.energy < 50 * DtDen -> 180
      [] c.type = "points" -> 100
      [] OTHER -> 0

\* line 527: typeBonus - dist - dangerScore, in 1/Res; NaN when dist is
ScoreAt(gg, c, dist) ==
    IF IsNaN(dist) THEN NaN
    ELSE TypeBonus(gg, c) * Res - dist - HoleDanger(gg, c, 1) - BulletDanger(gg, c, 1)

\* lines 498-527
TargetScore(gg, c) == ScoreAt(gg, c, Hypot(Sub(c.x, gg.player.x), Sub(c.y, gg.player.y)))

\* lines 529-532: index 0 is null and its score -Infinity
Better(best, i, score) ==
    IF ~IsNaN(score) /\ (best.index = 0 \/ score > best.score)
    THEN [index |-> i, score |-> score]
    ELSE best

\* lines 494-533: bestCollectible after collectibles i..
RECURSIVE BestCollectible(_, _, _)
BestCollectible(gg, i, best) ==
    IF i > Len(gg.collectibles) THEN best
    ELSE BestCollectible(gg, i + 1, Better(best, i, TargetScore(gg, gg.collectibles[i])))

\* one threat's share of evadeX or evadeY (lines 546-548, 560-562), in 1/1000:
\* (d / dist) * (1 - dist / reach) * weight
Repulsion(d, dist, reach, weight) ==
    IF IsNaN(UnitOf(d, dist)) THEN NaN
    ELSE TDiv(UnitOf(d, dist) * TDiv((reach - dist) * 1000, reach) * weight, Unit)

\* lines 545-550 and 559-564 for the threat t = <<x, y, reach, weight>>
RepelledAt(ev, t, dx, dy, dist) ==
    IF Lt(dist, t[3])
    THEN [ x |-> Add(ev.x, Repulsion(dx, dist, t[3], t[4])),
           y |-> Add(ev.y, Repulsion(dy, dist, t[3], t[4])),
           inDanger |-> TRUE ]
    ELSE ev

RepelledBy(ev, t, dx, dy) == RepelledAt(ev, t, dx, dy, Hypot(dx, dy))

\* lines 535-565: evadeX, evadeY and inDanger after the threats i..
RECURSIVE Evade(_, _, _, _)
Evade(gg, threats, i, ev) ==
    IF i > Len(threats) THEN ev
    ELSE Evade(gg, threats, i + 1,
               RepelledBy(ev, threats[i],
                          Sub(gg.player.x, threats[i][1]), Sub(gg.player.y, threats[i][2])))

\* the hazards, then the projectiles, each with its reach and weight
Threats(gg) ==
    [i \in 1..Len(gg.blackHoles) |->
        <<gg.blackHoles[i].x, gg.blackHoles[i].y,
          TDiv(gg.blackHoles[i].pullRadius * Res * 8, 10), 2>>]
    \o [i \in 1..Len(gg.bullets) |->
        <<gg.bullets[i].x, gg.bullets[i].y, 100 * Res, 3>>]

\* lines 571-572, one axis: from + (e / evadeDist) * 200
Away(e, evadeDist, from) ==
    Add(from, TDiv(TDiv(e * Unit, evadeDist) * 200 * Res, Unit))

\* lines 568-576 with the boost threshold of line 586
FleeSlow(gg, ev, evadeDist) ==
    [ gg EXCEPT
        !.mouseX = IF Gt(evadeDist, 0) THEN Away(ev.x, evadeDist, gg.player.x) ELSE gg.mouseX,
        !.mouseY = IF Gt(evadeDist, 0) THEN Away(ev.y, evadeDist, gg.player.y) ELSE gg.mouseY,
        !.mouseDown = gg.energy > 30 * DtDen ]

\* lines 568-576
Flee(gg, ev, evadeDist) ==
    [ gg EXCEPT
        !.mouseX = IF Gt(evadeDist, 0) THEN Away(ev.x, evadeDist, gg.player.x) ELSE gg.mouseX,
        !.mouseY = IF Gt(evadeDist, 0) THEN Away(ev.y, evadeDist, gg.player.y) ELSE gg.mouseY,
        !.mouseDown = gg.energy > 20 * DtDen ]

\* lines 577-587
Chase(gg, c) ==
    [ gg EXCEPT
        !.mouseX = c.x, !.mouseY = c.y,
        !.mouseDown = /\ Gt(Hypot(Sub(c.x, gg.player.x), Sub(c.y, gg.player.y)), 200 * Res)
                      /\ gg.energy > 30 * DtDen ]

\* lines 588-593; patrol is <<sin, cos>> of Date.now() * 0.001, in thousandths
Patrol(gg, patrol) ==
    [ gg EXCEPT
        !.mouseX = TDiv(gg.width * Res, 2) + TDiv(patrol[1] * 200 * Res, 1000),
        !.mouseY = TDiv(gg.height * Res, 2) + TDiv(patrol[2] * 150 * Res, 1000),
        !.mouseDown = FALSE ]

\* lines 567-593
Steer(gg, ev, best, patrol) ==
    IF ev.inDanger THEN Flee(gg, ev, Hypot(ev.x, ev.y))
    ELSE IF best.index # 0 THEN Chase(gg, gg.collectibles[best.index])
    ELSE Patrol(gg, patrol)

\* lines 596-597: Math.max(50, Math.min(extent - 50, v))
KeptInBounds(v, extent) ==
    IF IsNaN(v) THEN NaN ELSE Max(50 * Res, Min((extent - 50) * Res, v))

InBounds(gg) ==
    [ gg EXCEPT !.mouseX = KeptInBounds(gg.mouseX, gg.width),
                !.mouseY = KeptInBounds(gg.mouseY, gg.height) ]

\* updateBot(), lines 491-598
updateBot(gg, patrol) ==
    IF ~gg.botEnabled \/ ~HasPlayer(gg) THEN gg
    ELSE InBounds(Steer(gg,
                        Evade(gg, Threats(gg), 1, [x |-> 0, y |-> 0, inDanger |-> FALSE]),
                        BestCollectible(gg, 1, [index |-> 0, score |-> 0]),
                        patrol))

-----------------------------------------------------------------------------
(* The run: a world w is <<game, frame callbacks, timeouts, history>> *)

World == [g |-> g, raf |-> raf, timeouts |-> timeouts, hist |-> hist]

\* the world as a handler finds it
Begin ==
    [ World EXCEPT !.hist.ticks = 0, !.hist.skipped = 0, !.hist.cause = "none" ]

\* the world as an event handler finds it
Event == [Begin EXCEPT !.hist.events = hist.events + 1]

\* gameOver() without line 670: the run is left running
gameOverRunning(w, cause) ==
    [ w EXCEPT !.g.highScore = Max(w.g.highScore, w.g.score),
               !.timeouts = w.timeouts + 1,
               !.hist.overs = w.hist.overs + 1,
               !.hist.cause = cause ]

\* gameOver(), lines 669-705; cause is where update() called it
gameOver(w, cause) ==
    [ w EXCEPT !.g.isRunning = FALSE,
               !.g.highScore = Max(w.g.highScore, w.g.score),
               !.timeouts = w.timeouts + 1,
               !.hist.overs = w.hist.overs + 1,
               !.hist.cause = cause ]

\* lines 934-968, the end of update()
AfterBullets(w, r, dtn, shot) ==
    IF shot.dead THEN gameOver([w EXCEPT !.g = shot.g], "bullet")
    ELSE [w EXCEPT !.g = updateBot(LevelUp(Spawning(shot.g, dtn, r)), r.patrol)]

\* lines 777-968
AfterGravity(w, r, dtn, pulled) ==
    IF pulled.dead THEN gameOver([w EXCEPT !.g = pulled.g], "hazard")
    ELSE AfterBullets(w, r, dtn,
           AllBullets(
             AllBlackHoles(AllCollectibles(MovePlayer(pulled.g, dtn), dtn, r.coins),
                           dtn, r.jitter),
             dtn))

\* lines 727-968 for dt = dtn / DtDen
Ticked(w, r, dtn) ==
    AfterGravity(w, r, dtn, Gravity([g |-> Thrust(w.g, dtn), dead |-> FALSE], 1, dtn))

\* update(), lines 724-969, with the draws r of its Math.random() calls
update(w, r) == IF ~HasPlayer(w.g) THEN w ELSE Ticked(w, r, DtOf(w.g.deltaTime))

\* line 1313 with a cap of 55 ms
CappedLate(elapsed) == Min(elapsed, MaxDelta + 5)

\* Math.min(now - this.lastTime, 50), line 1313
CappedDelta(elapsed) == Min(elapsed, MaxDelta)

\* gameLoop() without the isPaused test of line 1310
gameLoopPaused(w, t, r) ==
    IF ~w.g.isRunning
    THEN [w EXCEPT !.hist.skipped = w.hist.skipped + 1]
    ELSE [ update([ w EXCEPT !.g.deltaTime = CappedDelta(t - w.g.lastTime),
                             !.g.lastTime = t,
                             !.hist.raw = t - w.g.lastTime,
                             !.hist.activeSeen = w.hist.active,
                             !.hist.active = 0,
                             !.hist.pausedSeen = w.hist.paused,
                             !.hist.paused = 0,
                             !.hist.ticks = w.hist.ticks + 1 ], r)
           EXCEPT !.raf = @ + 1 ]

\* gameLoop(), lines 1309-1320, called at time t
gameLoop(w, t, r) ==
    IF ~w.g.isRunning \/ w.g.isPaused
    THEN [w EXCEPT !.hist.skipped = w.hist.skipped + 1]
    ELSE [ update([ w EXCEPT !.g.deltaTime = CappedDelta(t - w.g.lastTime),
                             !.g.lastTime = t,
                             !.hist.raw = t - w.g.lastTime,
                             !.hist.activeSeen = w.hist.active,
                             !.hist.active = 0,
                             !.hist.pausedSeen = w.hist.paused,
                             !.hist.paused = 0,
                             !.hist.ticks = w.hist.ticks + 1 ], r)
           EXCEPT !.raf = @ + 1 ]

\* lines 601-617 without line 612: the projectiles of the last run stay
ResetKeepingBullets(gg) ==
    createPlayer([ gg EXCEPT !.isRunning = TRUE, !.isPaused = FALSE,
                             !.score = 0, !.level = 1, !.multiplier = 2,
                             !.energy = MaxEnergy * DtDen,
                             !.collectibles = <<>>, !.blackHoles = <<>>,
                             !.spawnTimer = 0, !.difficultyTimer = 0,
                             !.sessionCoins = 0 ])

\* lines 601-617 of startGame(): the run state it sets up for the first tick
Reset(gg) ==
    createPlayer([ gg EXCEPT !.isRunning = TRUE, !.isPaused = FALSE,
                             !.score = 0, !.level = 1, !.multiplier = 2,
                             !.energy = MaxEnergy * DtDen,
                             !.collectibles = <<>>, !.blackHoles = <<>>,
                             !.bullets = <<>>,
                             !.spawnTimer = 0, !.difficultyTimer = 0,
                             !.sessionCoins = 0 ])

\* startGame(), lines 600-634
startGame(w, t, r) ==
    gameLoop([ w EXCEPT
                 !.g = [Reset(w.g) EXCEPT !.lastTime = t],
                 !.hist.overs = 0, !.hist.active = 0, !.hist.paused = 0 ], t, r)

\* showMenu(), lines 636-646
showMenu(w) == [w EXCEPT !.g.isRunning = FALSE, !.g.isPaused = FALSE]

\* togglePause() without line 657
togglePauseStale(w, t, r) ==
    IF ~w.g.isRunning THEN w
    ELSE IF ~w.g.isPaused THEN [w EXCEPT !.g.isPaused = TRUE]
    ELSE gameLoop([w EXCEPT !.g.isPaused = FALSE], t, r)

\* togglePause(), lines 648-660
togglePause(w, t, r) ==
    IF ~w.g.isRunning THEN w
    ELSE IF ~w.g.isPaused THEN [w EXCEPT !.g.isPaused = TRUE]
    ELSE gameLoop([w EXCEPT !.g.isPaused = FALSE, !.g.lastTime = t], t, r)

\* resumeGame(), lines 662-667
resumeGame(w, t, r) ==
    gameLoop([w EXCEPT !.g.isPaused = FALSE, !.g.lastTime = t], t, r)

\* updateShipCardsUI(), lines 217-220
updateShipCardsUI(gg) ==
    IF \E i \in 1..Len(gg.unlockedShips) : gg.unlockedShips[i] = gg.selectedShip
    THEN gg
    ELSE [gg EXCEPT !.selectedShip =
            IF Len(gg.unlockedShips) > 0 THEN gg.unlockedShips[1] ELSE "speeder"]

\* the click handler of a ship card without the test of line 170
clickShipOnCredit(gg, shipId) ==
    IF \E i \in 1..Len(gg.unlockedShips) : gg.unlockedShips[i] = shipId
    THEN [gg EXCEPT !.selectedShip = shipId]
    ELSE [ updateShipCardsUI(
             [gg EXCEPT !.coins = gg.coins - shipTypes[shipId].price,
                        !.unlockedShips = Append(gg.unlockedShips, shipId)])
           EXCEPT !.selectedShip = shipId ]

\* the click handler of a ship card, lines 158-183
clickShip(gg, shipId) ==
    IF \E i \in 1..Len(gg.unlockedShips) : gg.unlockedShips[i] = shipId
    THEN [gg EXCEPT !.selectedShip = shipId]
    ELSE IF gg.coins >= shipTypes[shipId].price
    THEN [ updateShipCardsUI(
             [gg EXCEPT !.coins = gg.coins - shipTypes[shipId].price,
                        !.unlockedShips = Append(gg.unlockedShips, shipId)])
           EXCEPT !.selectedShip = shipId ]
    ELSE gg

-----------------------------------------------------------------------------
(* The draws an update() at time t can make: each Math.random() it calls   *)
(* takes one of the values above, and a draw it does not read is NoDraw's  *)

Fields(r, names) == [n \in names |-> r[n]]

TickDraws(gg, t) ==
    IF ~gg.isRunning \/ gg.isPaused \/ ~HasPlayer(gg) THEN {NoDraw}
    ELSE LET dtn == DtOf(CappedDelta(t - gg.lastTime))
             holes == { Fields(NoDraw, {"hole", "hx", "hy", "kind"}) }
                      \cup (IF Len(gg.blackHoles) <= HoleCap(gg.level)
                            THEN [hole : {TRUE}, hx : HoleFracs, hy : HoleFracsY, kind : HoleKinds]
                            ELSE {})
             colls == { Fields(NoDraw, {"second", "c1", "c2"}) }
                      \cup (IF gg.spawnTimer + dtn > SpawnPeriod * DtDen
                            THEN [second : {FALSE}, c1 : CollDraws, c2 : {NoDraw.c2}]
                                 \cup [second : {TRUE}, c1 : CollDraws, c2 : CollDraws]
                            ELSE {})
             others == [ coins : IF \E i \in 1..Len(gg.collectibles) :
                                      gg.collectibles[i].type = "points"
                                 THEN CoinDraws ELSE {NoDraw.coins},
                         jitter : IF \E i \in 1..Len(gg.blackHoles) :
                                      gg.blackHoles[i].shootTimer + dtn
                                          >= gg.blackHoles[i].shootInterval
                                  THEN Jitters ELSE {NoDraw.jitter},
                         patrol : IF gg.botEnabled THEN PatrolPhases ELSE {NoDraw.patrol} ]
         IN  { h @@ c @@ o : h \in holes, c \in colls, o \in others }

\* the worlds k frame callbacks run one after the other at time t can leave
RECURSIVE Frames(_, _, _)
Frames(w, k, t) ==
    IF k = 0 THEN {w}
    ELSE UNION { Frames(gameLoop(w, t, r), k - 1, t) : r \in TickDraws(w.g, t) }

Apply(w) ==
    /\ g' = w.g
    /\ raf' = w.raf
    /\ timeouts' = w.timeouts
    /\ hist' = w.hist

\* a handler call that leaves the world w; a call that changes nothing is a
\* stuttering step
Handle(w) ==
    /\ <<w.g, w.raf, w.timeouts>> # <<g, raf, timeouts>>
    /\ Apply(w)

-----------------------------------------------------------------------------
(* Initial states and actions *)

\* new Game(), lines 4-105, 1331-1333
Constructed ==
    { [g |-> NewGame(<<300, 300>>, stored), raf |-> 0, timeouts |-> 0, hist |-> NewHist] :
        stored \in Stored }

\* a run of ship on a 300 x 300 canvas as startGame() sets it up, the pointer
\* resting on the player and one frame callback pending
Started(ship) ==
    [ g |-> createPlayer(
              [ NewGame(<<300, 300>>,
                        CHOOSE st \in Stored :
                            \E i \in 1..Len(st.unlockedShips) : st.unlockedShips[i] = ship)
                EXCEPT !.isRunning = TRUE, !.selectedShip = ship,
                       !.mouseX = 150 * Res, !.mouseY = 150 * Res ]),
      raf |-> 1, timeouts |-> 0, hist |-> NewHist ]

\* the game after n more multiplier items were collected
RECURSIVE PickedUp(_, _)
PickedUp(gg, n) ==
    IF n = 0 THEN gg ELSE PickedUp(collectItem(gg, [type |-> "multiplier"], 1), n - 1)

\* a collectible spawned age ticks ago at the top edge above the centre and
\* aimed at it (edge 0, lines 395 and 415-426), speed in hundredths
Falling(type, speed, age) ==
    [ x |-> 150 * Res, y |-> TDiv(speed * age * Res, 100) - 30 * Res,
      vx |-> 0, vy |-> TDiv(speed * VRes, 100),
      radius |-> 12, type |-> type, lifetime |-> age * DtDen ]

\* the same from the right edge (edge 1, line 396)
Entering(type, speed, age) ==
    [ x |-> 330 * Res - TDiv(speed * age * Res, 100), y |-> 150 * Res,
      vx |-> 0 - TDiv(speed * VRes, 100), vy |-> 0,
      radius |-> 12, type |-> type, lifetime |-> age * DtDen ]

\* a hazard of level 1 (lines 449-459) at <<x, y>> pixels, age ticks old, that
\* has its shootTimer at fired ticks
Hazard(x, y, age, fired) ==
    [ x |-> x * Res, y |-> y * Res, radius |-> 40, pullRadius |-> 150, strength |-> 35,
      lifetime |-> age * DtDen, maxLifetime |-> 500 * DtDen,
      shootTimer |-> fired * DtDen, shootInterval |-> 120 * DtDen ]

\* a projectile of level 1 (lines 469-479) x tenths of a pixel from the left
\* on the player's row, flying along it at vx tenths of a pixel per tick,
\* fired ticks ago
Flying(x, vx, fired) ==
    [ x |-> TDiv(x * Res, 10), y |-> 150 * Res, vx |-> TDiv(vx * VRes, 10), vy |-> 0,
      radius |-> 6, life |-> (300 - fired) * DtDen ]

\* Runs in progress on a 300 x 300 canvas, each at the end of an update(),
\* the player at the centre.
\* Late: a speeder late in level 1, the button held: 17 multiplier items
\* collected (x9.5), little energy left, the next collectible spawn and the
\* next level one tick away, the collectible of the last spawn (a multiplier
\* item) about to touch the player.
Late ==
    [ Started("speeder") EXCEPT
        !.g = [ PickedUp(@, 17) EXCEPT
                  !.mouseDown = TRUE,
                  !.energy = DtDen,
                  !.spawnTimer = 59 * DtDen,
                  !.difficultyTimer = 1799 * DtDen,
                  !.collectibles = << Falling("multiplier", 258, 59) >> ],
        !.hist.held = TRUE ]

\* Crossfire: a tank that has just drifted between two hazards and touches
\* both, the second about to fire, a projectile of the first about to touch
\* it, an energy item and a shield item of one spawn falling onto it, the
\* item of the next spawn on its way.
Crossfire ==
    [ Started("tank") EXCEPT
        !.g = [ @ EXCEPT
                  !.spawnTimer = 50 * DtDen,
                  !.difficultyTimer = 290 * DtDen,
                  !.blackHoles = << Hazard(180, 150, 242, 2), Hazard(150, 180, 119, 119) >>,
                  !.bullets = << Flying(1714, 0 - 43, 2) >>,
                  !.collectibles = << Falling("energy", 138, 110),
                                      Falling("shield", 138, 110),
                                      Entering("points", 120, 50) >> ] ]

\* Sniped: a speeder with a hazard out of reach whose projectile is about
\* to touch it, a points item falling onto it, the item of the next spawn on
\* its way.
Sniped ==
    [ Started("speeder") EXCEPT
        !.g = [ @ EXCEPT
                  !.spawnTimer = 30 * DtDen,
                  !.difficultyTimer = 150 * DtDen,
                  !.blackHoles = << Hazard(100, 150, 127, 6) >>,
                  !.bullets = << Flying(1258, 43, 6) >>,
                  !.collectibles = << Falling("points", 167, 91),
                                      Entering("energy", 200, 30) >> ] ]

\* a collectible like Entering's on a canvas 1400 wide
Crossing(type, speed, age) == [Entering(type, speed, age) EXCEPT !.x = @ + 1100 * Res]

\* Stale: a tank at rest near the left edge of a 1400 x 300 canvas, out of
\* reach of its two hazards, with entities about to expire between ones that
\* stay: a collectible 599 ticks old, one on its way in, one leaving past the
\* bottom edge; a hazard 499 ticks old and a younger one; a projectile on its
\* way, one with one tick of life left, one leaving past the left edge.
Stale ==
    [ Started("tank") EXCEPT
        !.g = [ @ EXCEPT
                  !.width = 1400,
                  !.spawnTimer = 10 * DtDen,
                  !.difficultyTimer = 700 * DtDen,
                  !.blackHoles = << Hazard(600, 150, 499, 19), Hazard(1000, 150, 200, 80) >>,
                  !.bullets = << Flying(5000, 0 - 43, 150), Flying(140, 0 - 43, 299),
                                 Flying(0 - 480, 0 - 43, 200) >>,
                  !.collectibles = << Crossing("energy", 100, 599),
                                      Crossing("multiplier", 120, 50),
                                      Falling("shield", 200, 190) >> ] ]

MidRun == { Late, Crossfire, Sniped, Stale }

Init ==
    /\ \E w \in Constructed \cup MidRun :
           /\ g = w.g
           /\ raf = w.raf
           /\ timeouts = w.timeouts
           /\ hist = w.hist
    /\ now = 0

\* a display refresh gap ms after the last: the registered frame callbacks
\* run (line 1319)
Refresh ==
    \E gap \in Gaps :
        /\ hist.refreshes < MaxRefreshes
        /\ now' = now + gap
        /\ LET w0 == Begin
               w1 == [ w0 EXCEPT !.raf = 0,
                                 !.hist.refreshes = hist.refreshes + 1,
                                 !.hist.active =
                                    IF g.isRunning /\ ~g.isPaused
                                    THEN hist.active + gap ELSE hist.active,
                                 !.hist.paused =
                                    IF g.isRunning /\ g.isPaused
                                    THEN hist.paused + gap ELSE hist.paused ]
           IN  \E w2 \in Frames(w1, raf, now + gap) : Apply(w2)

\* the 1500 ms timeout of gameOver(), lines 700-704
MenuTimeout ==
    /\ hist.events < MaxEvents
    /\ timeouts > 0
    /\ LET w1 == showMenu([Event EXCEPT !.timeouts = timeouts - 1])
       IN  Handle([w1 EXCEPT !.g = updateShipCardsUI(w1.g)])
    /\ UNCHANGED now

\* start-btn and restart-btn, lines 127-128
StartClick ==
    /\ hist.events < MaxEvents
    /\ raf < MaxPending
    /\ \E r \in TickDraws([Reset(g) EXCEPT !.lastTime = now], now) :
           Handle(startGame(Event, now, r))
    /\ UNCHANGED now

\* menu-btn and quit-btn, lines 129 and 131
MenuClick ==
    /\ hist.events < MaxEvents
    /\ Handle(showMenu(Event))
    /\ UNCHANGED now

\* resume-btn, line 130
ResumeClick ==
    /\ hist.events < MaxEvents
    /\ g.isRunning => raf < MaxPending
    /\ \E r \in TickDraws([g EXCEPT !.isPaused = FALSE, !.lastTime = now], now) :
           Handle(resumeGame(Event, now, r))
    /\ UNCHANGED now

\* handleKeyDown(), lines 258-269, for Escape
EscapeDown ==
    /\ hist.events < MaxEvents
    /\ g.isRunning /\ g.isPaused => raf < MaxPending
    /\ \E r \in TickDraws([g EXCEPT !.isPaused = FALSE, !.lastTime = now], now) :
           Handle(IF g.isRunning THEN togglePause(Event, now, r)
                 ELSE Event)
    /\ UNCHANGED now

\* handleKeyDown() and handleKeyUp(), lines 258-273, for Space
SpaceKey ==
    /\ hist.events < MaxEvents
    /\ \E down \in BOOLEAN : Handle([Event EXCEPT !.g.keysSpace = down])
    /\ UNCHANGED now

\* handleMouseMove() and handleTouchMove(), lines 275-279 and 291-297
MouseMove ==
    /\ hist.events < MaxEvents
    /\ \E pt \in MousePoints :
           Handle([Event EXCEPT !.g.mouseX = pt[1] * Res, !.g.mouseY = pt[2] * Res])
    /\ UNCHANGED now

\* handleMouseDown() with button 0, lines 281-285
MouseDown ==
    /\ hist.events < MaxEvents
    /\ ~g.mouseDown \/ ~hist.held
    /\ Apply([Event EXCEPT !.g.mouseDown = TRUE, !.hist.held = TRUE])
    /\ UNCHANGED now

\* handleMouseUp() and handleTouchEnd(), lines 287-289 and 305-307
MouseUp ==
    /\ hist.events < MaxEvents
    /\ g.mouseDown \/ hist.held
    /\ Apply([Event EXCEPT !.g.mouseDown = FALSE, !.hist.held = FALSE])
    /\ UNCHANGED now

\* handleTouchStart(), lines 299-303
TouchStart ==
    /\ hist.events < MaxEvents
    /\ \E pt \in MousePoints :
           /\ ~hist.held \/ <<g.mouseDown, g.mouseX, g.mouseY>> # <<TRUE, pt[1] * Res, pt[2] * Res>>
           /\ Apply([Event EXCEPT !.g.mouseDown = TRUE, !.hist.held = TRUE,
                                  !.g.mouseX = pt[1] * Res, !.g.mouseY = pt[2] * Res])
    /\ UNCHANGED now

\* resize(), lines 253-256
Resize ==
    /\ hist.events < MaxEvents
    /\ \E size \in Sizes :
           Handle([Event EXCEPT !.g.width = size[1], !.g.height = size[2]])
    /\ UNCHANGED now

\* toggleBot(), lines 482-489
BotClick ==
    /\ hist.events < MaxEvents
    /\ Handle([Event EXCEPT !.g.botEnabled = ~g.botEnabled])
    /\ UNCHANGED now

\* a click on a ship card, lines 158-183
ShipClick ==
    /\ hist.events < MaxEvents
    /\ \E shipId \in Ships : Handle([Event EXCEPT !.g = clickShip(g, shipId)])
    /\ UNCHANGED now

Next ==
    \/ Refresh
    \/ MenuTimeout
    \/ StartClick
    \/ MenuClick
    \/ ResumeClick
    \/ EscapeDown
    \/ SpaceKey
    \/ MouseMove
    \/ MouseDown
    \/ MouseUp
    \/ TouchStart
    \/ Resize
    \/ BotClick
    \/ ShipClick

Spec == Init /\ [][Next]_vars

-----------------------------------------------------------------------------
(* The pull of one hazard, lines 757-766, on its own: the player at the    *)
(* centre of a 300 x 300 canvas, a hazard at an offset from it, one pull   *)

\* hazard centre minus player centre, pixels: distances 0, 0.1 (in 1/Res
\* units: 1), 50, 100, 150, 200 and 250
PullOffsets ==
    { <<0, 0>>, <<100, 0>>, <<0, 0 - 50>>, <<30, 40>>, <<0 - 60, 0 - 80>>,
      <<0 - 90, 120>>, <<120, 160>>, <<0 - 150, 200>> }

\* pullRadius is 150 + Math.random() * 100, strength 0.3 + level * 0.05
\* (lines 452-453)
PullRadii == { 150, 200, 249 }
PullLevels == { 1, 4 }

\* the player's velocity before the pull, in 1/VRes
PullSpeeds == { <<0, 0>>, <<3 * VRes, 0 - 2 * VRes>> }

\* the capped elapsed times of line 1313, ms
PullDeltas == { 17, 50 }

PullInit ==
    /\ \E off \in PullOffsets, radius \in PullRadii, level \in PullLevels,
          v \in PullSpeeds, ms \in PullDeltas, near \in BOOLEAN :
           g = [ Started("speeder").g EXCEPT
                   !.level = level,
                   !.deltaTime = ms,
                   !.player.vx = v[1], !.player.vy = v[2],
                   !.blackHoles =
                      << [ Hazard(150, 150, 0, 0) EXCEPT
                             !.x = @ + (IF near THEN off[1] ELSE off[1] * Res),
                             !.y = @ + (IF near THEN off[2] ELSE off[2] * Res),
                             !.pullRadius = radius,
                             !.strength = 30 + level * 5 ] >> ]
    /\ now = 0
    /\ raf = 0
    /\ timeouts = 0
    /\ hist = NewHist

\* lines 758-766 for the one hazard
Pulled ==
    /\ hist.ticks = 0
    /\ g' = Pull(g, g.blackHoles[1], DtOf(g.deltaTime), HoleDist(g, g.blackHoles[1]))
    /\ hist' = [hist EXCEPT !.ticks = 1]
    /\ UNCHANGED <<now, raf, timeouts>>

PullNext == Pulled

PullSpec == PullInit /\ [][PullNext]_vars

-----------------------------------------------------------------------------
(* updateBot(), lines 491-598, on its own: the bot enabled on a 1000 x 1000 *)
(* canvas, one hazard at an offset from the player or two at opposite       *)
(* offsets, no projectiles                                                  *)

\* the player's position, pixels: mid-canvas and 40 pixels from the right
\* and from the top edge
PilotPlaces == { <<500, 500>>, <<960, 500>>, <<500, 40>> }

\* hazard centre minus player centre, pixels: distances 0, 50, 119, 120, 130
\* and 150 against a pullRadius of 150
PilotOffsets ==
    { <<0, 0>>, <<50, 0>>, <<0 - 50, 0>>, <<30, 40>>, <<0, 0 - 119>>,
      <<0 - 72, 0 - 96>>, <<130, 0>>, <<0 - 90, 120>> }

\* this.energy
PilotEnergies == { 0, 20, 21, 30, 100 }

\* this.collectibles
PilotItems == { <<>>, << [Entering("points", 120, 50) EXCEPT !.x = 700 * Res] >> }

PilotInit ==
    /\ \E at \in PilotPlaces, off \in PilotOffsets, e \in PilotEnergies,
          items \in PilotItems, opposite \in BOOLEAN :
           g = [ Started("speeder").g EXCEPT
                   !.width = 1000, !.height = 1000,
                   !.botEnabled = TRUE,
                   !.energy = e * DtDen,
                   !.player.x = at[1] * Res, !.player.y = at[2] * Res,
                   !.collectibles = items,
                   !.blackHoles =
                      << Hazard(at[1] + off[1], at[2] + off[2], 100, 10) >>
                      \o (IF opposite
                          THEN << Hazard(at[1] - off[1], at[2] - off[2], 100, 10) >>
                          ELSE <<>>) ]
    /\ now = 0
    /\ raf = 0
    /\ timeouts = 0
    /\ hist = NewHist

\* line 965
Piloted ==
    /\ hist.ticks = 0
    /\ \E patrol \in PatrolPhases : g' = updateBot(g, patrol)
    /\ hist' = [hist EXCEPT !.ticks = 1]
    /\ UNCHANGED <<now, raf, timeouts>>

PilotNext == Piloted

PilotSpec == PilotInit /\ [][PilotNext]_vars

-----------------------------------------------------------------------------
(* The two timers of lines 934-962 on their own: runs with no entities,    *)
(* the timers short of their periods by what a frame adds, and frames      *)

\* runs of a speeder on a 300 x 300 canvas at <<level, multiplier>>, both
\* timers short of their periods (60 and 1800) by short * dt: a nominal
\* frame's dt (17 ms) or a stalled frame's (50 ms) brings them to exactly
\* the period, and a frame after one tick short takes them past it
Clocked ==
    { [ Started("speeder") EXCEPT
          !.g = [ @ EXCEPT !.level = lm[1], !.multiplier = lm[2],
                           !.spawnTimer = SpawnPeriod * DtDen - short,
                           !.difficultyTimer = LevelPeriod * DtDen - short ] ] :
        lm \in { <<1, 2>>, <<2, 19>>, <<3, 20>> },
        short \in { DtOf(17), DtOf(MaxDelta), DtDen, 30 * DtDen } }

TimerInit ==
    /\ \E w \in Clocked :
           /\ g = w.g
           /\ raf = w.raf
           /\ timeouts = w.timeouts
           /\ hist = w.hist
    /\ now = 0

TimerSpec == TimerInit /\ [][Refresh]_vars

-----------------------------------------------------------------------------
(* spawnCollectible() and spawnBlackHole(), lines 390-460, on their own: a *)
(* run in progress with no entities, one call of either                    *)

\* canvases of 300 x 300, 100 x 100 and 1000 x 600, the player at the
\* centre or 50 pixels from the top left corner
SpawnInit ==
    /\ \E size \in Sizes \cup { <<1000, 600>> }, corner \in BOOLEAN :
           g = [ Started("speeder").g EXCEPT
                   !.width = size[1], !.height = size[2],
                   !.player.x = IF corner THEN 50 * Res ELSE TDiv(size[1] * Res, 2),
                   !.player.y = IF corner THEN 50 * Res ELSE TDiv(size[2] * Res, 2) ]
    /\ now = 0
    /\ raf = 0
    /\ timeouts = 0
    /\ hist = NewHist

\* spawnCollectible() for Math.random() values at the edges of the ranges
\* and, for the category, on both sides of each threshold
Picked ==
    /\ hist.ticks = 0
    /\ \E c \in [ edge : 0..3, pos : {0, 999}, type : {0, 399, 400, 749, 750, 899, 900, 999},
                   tx : {0, 999}, ty : {500}, speed : {0, 999} ] :
           g' = spawnCollectible(g, c)
    /\ hist' = [hist EXCEPT !.ticks = 1]
    /\ UNCHANGED <<now, raf, timeouts>>

\* the runs of Math.random() pairs a spawnBlackHole() can draw: the pair a
\* up to attempt k - 1 and the pair b from attempt k on
HoleRuns ==
    { [n \in 1..50 |-> IF n < k THEN a ELSE b] :
        a \in { <<0, 0>>, <<500, 500>>, <<999, 999>> },
        b \in { <<0, 0>>, <<500, 500>>, <<999, 999>>, <<999, 0>> },
        k \in { 1, 2, 50 } }

\* spawnBlackHole() with its sampling loop
Placed ==
    /\ hist.ticks = 0
    /\ \E pts \in HoleRuns :
           g' = spawnBlackHole(g, [ NoDraw EXCEPT !.hole = TRUE,
                                                 !.hx = Sampling(g, pts, 1).hx,
                                                 !.hy = Sampling(g, pts, 1).hy ])
    /\ hist' = [hist EXCEPT !.ticks = 1]
    /\ UNCHANGED <<now, raf, timeouts>>

SpawnNext == Picked \/ Placed

SpawnSpec == SpawnInit /\ [][SpawnNext]_vars

-----------------------------------------------------------------------------
(* The economy of lines 99-101, 152-185 and 241-251: the page loaded with   *)
(* coins around the prices (400 and 600), and a run about to pick up a      *)
(* points item with 397 coins                                               *)

ShopInit ==
    /\ \E w \in { [ g |-> NewGame(<<300, 300>>, [coins |-> c, unlockedShips |-> u]),
                    raf |-> 0, timeouts |-> 0, hist |-> NewHist ] :
                     c \in { 0, 399, 400, 599, 600, 1000 },
                     u \in { <<"speeder">>, <<"speeder", "tank">> } }
                \cup { [Sniped EXCEPT !.g.coins = 397, !.g.unlockedShips = <<"speeder">>] } :
           /\ g = w.g
           /\ raf = w.raf
           /\ timeouts = w.timeouts
           /\ hist = w.hist
    /\ now = 0

ShopSpec ==
    ShopInit /\ [][ShipClick \/ StartClick \/ Refresh \/ MenuClick \/ MenuTimeout]_vars

-----------------------------------------------------------------------------
(* Properties *)

\* a step in which the display refreshed
Refreshed == now' # now

\* the player's position is a number within the wrap range of lines 799-804
InRange ==
    /\ ~IsNaN(g.player.x) /\ ~IsNaN(g.player.y)
    /\ 0 - g.player.radius * Res <= g.player.x
    /\ g.player.x <= (g.width + g.player.radius) * Res
    /\ 0 - g.player.radius * Res <= g.player.y
    /\ g.player.y <= (g.height + g.player.radius) * Res

\* hazard i touches the player (line 769)
Touching(i) == Lt(HoleDist(g, g.blackHoles[i]), g.blackHoles[i].radius * Res)

\* C1: in every reachable state hp is between 0 and maxHP, also when several
\* hazards and projectiles touch the player in one tick.
C1_HpInRange == 0 <= g.hp /\ g.hp <= g.maxHP

\* a three-heart ship that lost a heart while two hazards touch it
C1_Witness ==
    /\ HasPlayer(g) /\ g.maxHP = 3 /\ g.hp = 2
    /\ Len(g.blackHoles) >= 2 /\ Touching(1) /\ Touching(2)

\* C2: in every reachable state energy is between 0 and 100; neither the
\* boost drain, the regeneration nor an energy pickup takes it outside.
C2_EnergyInRange == 0 <= g.energy /\ g.energy <= MaxEnergy * DtDen

\* a boosted tick of a stalled frame has drained the energy to exactly 0
C2_Witness ==
    /\ HasPlayer(g) /\ g.player.boosting /\ g.energy = 0
    /\ hist.ticks > 0 /\ g.deltaTime = MaxDelta

\* C3: in every reachable state multiplier is between 1 and 10 (2 and 20
\* halves), whatever the number of level-ups and multiplier pickups.
C3_MultiplierInRange == 2 <= g.multiplier /\ g.multiplier <= MaxMultiplier * 2

\* a pickup raised x9.5 to x10 and the level-up of the same tick left it there
C3_Witness ==
    /\ g.multiplier = MaxMultiplier * 2 /\ g.level = 2
    /\ g.collectibles # <<>> /\ hist.ticks > 0

\* what a step whose only update() called gameOver() leaves alone: from a
\* hazard, everything after line 771; from a projectile, everything after
\* line 894
Halted ==
    /\ g'.hp = g.hp - 1
    /\ g'.spawnTimer = g.spawnTimer /\ g'.difficultyTimer = g.difficultyTimer
    /\ g'.level = g.level /\ g'.multiplier = g.multiplier
    /\ g'.mouseX = g.mouseX /\ g'.mouseY = g.mouseY /\ g'.mouseDown = g.mouseDown
    /\ hist'.cause = "hazard" =>
          /\ g'.player.x = g.player.x /\ g'.player.y = g.player.y
          /\ g'.player.invincibleTimer = g.player.invincibleTimer
          /\ g'.collectibles = g.collectibles
          /\ g'.blackHoles = g.blackHoles
          /\ g'.bullets = g.bullets

\* C4: gameOver() is called once per run, in the tick where hp reaches 0;
\* that tick does nothing after the call, and no later tick or callback of
\* the run calls it again.
C4_GameOverOnce ==
    /\ [](/\ hist.overs <= 1
          /\ hist.overs = 1 <=> g.hp = 0
          /\ hist.overs = 1 => ~g.isRunning)
    /\ [][hist'.cause # "none" /\ hist'.ticks = 1 => Halted]_vars

\* the run is over and a frame callback has come after it
C4_Witness == hist.overs = 1 /\ g.hp = 0 /\ hist.cause = "none" /\ hist.skipped > 0

\* C5: takeDamage() on an invulnerable player changes nothing and reports no
\* death; hp drops by at most one in a step, and not at all while more of
\* the grace window is left than the step's ticks consume.
C5_DamageOncePerGrace ==
    /\ [](HasPlayer(g) /\ g.player.invincible
             => takeDamage(g) = [g |-> g, dead |-> FALSE])
    /\ [][g'.hp < g.hp /\ g'.maxHP = g.maxHP
             => /\ g'.hp = g.hp - 1
                /\ g.player.invincible
                      => g.player.invincibleTimer <= hist'.ticks * DtOf(MaxDelta)]_vars

\* a fresh grace window with a projectile inside the player's reach
C5_Witness ==
    /\ HasPlayer(g) /\ g.player.invincible /\ g.hp = g.maxHP - 1 /\ g.isRunning
    /\ \E i \in 1..Len(g.bullets) :
          Lt(Hypot(Sub(g.player.x, g.bullets[i].x), Sub(g.player.y, g.bullets[i].y)),
             (g.player.radius + g.bullets[i].radius) * Res)

\* C6: at most one gameLoop frame callback is pending at any time, for every
\* interleaving of startGame, togglePause, resumeGame and frame callbacks.
C6_OneCallbackPending == raf <= 1

\* C7: a display refresh while the game is paused or not running changes
\* nothing of the game and leaves no frame callback scheduled.
C7_PausedFrameInert ==
    [][Refreshed /\ (g.isPaused \/ ~g.isRunning) => g' = g /\ raf' = 0]_vars

\* a frame callback has fired on a paused run
C7_Witness == g.isRunning /\ g.isPaused /\ hist.skipped > 0 /\ raf = 0

\* C8: the elapsed time an update() is handed is no longer than the time the
\* run has spent unpaused since the update() before it: none of a paused
\* interval is in it.
C8_ResumeResetsBaseline == hist.raw <= hist.activeSeen

\* the update() of a resume that followed a pause of at least a stalled frame
C8_Witness ==
    /\ hist.ticks = 1 /\ hist.raw = 0 /\ g.deltaTime = 0
    /\ hist.pausedSeen >= 200 /\ g.isRunning /\ ~g.isPaused

\* C9: the elapsed time handed to update() is between 0 and 50 ms, so dt is
\* at most 50 / 16.67 < 3.
C9_ElapsedCapped ==
    /\ 0 <= g.deltaTime /\ g.deltaTime <= MaxDelta
    /\ DtOf(g.deltaTime) < 3 * DtDen

\* an update() after a gap of 200 ms was handed 50 ms
C9_Witness == hist.ticks > 0 /\ hist.raw = 200 /\ g.deltaTime = MaxDelta

\* C10: after every tick the player's position is within
\* [-radius, width + radius] x [-radius, height + radius], also when the
\* canvas was resized between ticks.
C10_WrapInvariant == HasPlayer(g) /\ hist.ticks > 0 => InRange

\* the expiry conditions of lines 845-847, 867 and 902-904
ExpiredItem(c) == OutOfBounds(g, c.x, c.y) \/ c.lifetime > 600 * DtDen
ExpiredHole(hole) == hole.lifetime > hole.maxLifetime
ExpiredBullet(b) == b.life <= 0 \/ OutOfBounds(g, b.x, b.y)

\* a step whose last update() ran to its end
Swept == hist'.ticks > 0 /\ hist'.cause = "none" /\ HasPlayer(g')

\* C11: after an update() that ran to its end no collectible is older than
\* 600 ticks or more than 50 pixels outside the canvas, no hazard is older
\* than its maxLifetime and no projectile has life <= 0 or is more than 50
\* pixels outside; and the loops skipped nothing: in a step of one update()
\* every entity left is a new one or was aged by that update()'s dt.
C11_ExpirySweep ==
    /\ [](hist.ticks > 0 /\ hist.cause = "none" /\ HasPlayer(g) =>
            /\ \A i \in 1..Len(g.collectibles) : ~ExpiredItem(g.collectibles[i])
            /\ \A i \in 1..Len(g.blackHoles) : ~ExpiredHole(g.blackHoles[i])
            /\ \A i \in 1..Len(g.bullets) : ~ExpiredBullet(g.bullets[i]))
    /\ [][Swept /\ hist'.ticks = 1 /\ g.isRunning /\ hist'.overs = hist.overs =>
            /\ \A i \in 1..Len(g'.collectibles) :
                   \/ g'.collectibles[i].lifetime = 0
                   \/ \E j \in 1..Len(g.collectibles) :
                          g'.collectibles[i].lifetime
                              = g.collectibles[j].lifetime + DtOf(g'.deltaTime)
            /\ \A i \in 1..Len(g'.blackHoles) :
                   \/ g'.blackHoles[i].lifetime = 0
                   \/ \E j \in 1..Len(g.blackHoles) :
                          g'.blackHoles[i].lifetime
                              = g.blackHoles[j].lifetime + DtOf(g'.deltaTime)
            /\ \A i \in 1..Len(g'.bullets) :
                   \/ g'.bullets[i].life = 300 * DtDen - DtOf(g'.deltaTime)
                   \/ \E j \in 1..Len(g.bullets) :
                          g'.bullets[i].life = g.bullets[j].life - DtOf(g'.deltaTime)]_vars

\* the Stale run one update() later: of each collection the entities past
\* their expiry are gone and the one between them is left
C11_Witness ==
    /\ hist.ticks = 1 /\ hist.cause = "none" /\ g.width = 1400
    /\ Len(g.collectibles) = 1 /\ g.collectibles[1].type = "multiplier"
    /\ Len(g.blackHoles) = 1 /\ g.blackHoles[1].x = 1000 * Res
    /\ Len(g.bullets) = 1 /\ g.bullets[1].life < 150 * DtDen /\ g.bullets[1].life > 140 * DtDen


\* the player's circle and the event horizon of hazard i overlap
Overlapping(i) ==
    Lt(HoleDist(g, g.blackHoles[i]), (g.blackHoles[i].radius + g.player.radius) * Res)

\* a display refresh that runs the one pending frame callback of a run in
\* progress
OneTick == Refreshed /\ raf = 1 /\ g.isRunning /\ ~g.isPaused /\ HasPlayer(g)

\* C12: in an update() that finds the player not invulnerable, damage is
\* applied by a hazard exactly when the distance between the centres is
\* less than the event-horizon radius plus the player's radius: then hp
\* goes down by one, and otherwise no hazard ends the run.
C12_HazardContact ==
    [][OneTick /\ ~g.player.invincible =>
         IF \E i \in 1..Len(g.blackHoles) : Overlapping(i)
         THEN g'.hp = g.hp - 1
         ELSE hist'.cause # "hazard"]_vars


\* the test of lines 886-890 for projectile b and the player of gg
Struck(gg, b) ==
    Lt(Hypot(Sub(gg.player.x, b.x), Sub(gg.player.y, b.y)),
       (gg.player.radius + b.radius) * Res)

\* projectile b is in the collection of the next state
Kept(b) == \E i \in 1..Len(g'.bullets) : g'.bullets[i] = b

\* C13: in an update() that reaches the projectiles, a projectile overlapping
\* an invulnerable player stays in the collection, moved by its velocity, and
\* does no damage, unless its life ran out or it left the bounds; one that
\* overlaps a player who is not invulnerable is removed and hp goes down by
\* one in that update(), so an update() that ran to its end leaves none
\* overlapping such a player.
C13_ProjectileContact ==
    [][OneTick /\ hist'.cause # "hazard" =>
         /\ hist'.cause = "none" /\ ~g'.player.invincible =>
                \A i \in 1..Len(g'.bullets) : ~Struck(g', g'.bullets[i])
         /\ \A j \in 1..Len(g.bullets) :
                Struck(g', MovedBullet(g.bullets[j], DtOf(g'.deltaTime))) =>
                    IF Kept(MovedBullet(g.bullets[j], DtOf(g'.deltaTime)))
                    THEN g'.player.invincible
                    ELSE \/ g'.hp = g.hp - 1
                         \/ MovedBullet(g.bullets[j], DtOf(g'.deltaTime)).life <= 0
                         \/ OutOfBounds(g', MovedBullet(g.bullets[j], DtOf(g'.deltaTime)).x,
                                        MovedBullet(g.bullets[j], DtOf(g'.deltaTime)).y)
         /\ g.player.invincible /\ g.player.invincibleTimer > DtOf(g'.deltaTime) =>
                /\ hist'.cause = "none"
                /\ g'.hp = g.hp
                /\ \A j \in 1..Len(g.bullets) :
                       \/ Kept(MovedBullet(g.bullets[j], DtOf(g'.deltaTime)))
                       \/ MovedBullet(g.bullets[j], DtOf(g'.deltaTime)).life <= 0
                       \/ OutOfBounds(g', MovedBullet(g.bullets[j], DtOf(g'.deltaTime)).x,
                                      MovedBullet(g.bullets[j], DtOf(g'.deltaTime)).y)]_vars

\* after one update() an invulnerable player and a projectile fired in an
\* earlier one overlap, the projectile still in flight
C13_Witness ==
    /\ hist.ticks = 1 /\ hist.cause = "none" /\ HasPlayer(g) /\ g.player.invincible
    /\ \E i \in 1..Len(g.bullets) :
           /\ Struck(g, g.bullets[i])
           /\ g.bullets[i].life < 299 * DtDen - DtOf(g.deltaTime)
           /\ g.bullets[i].life > 0


\* the test of lines 834-838 for collectible c and the player p
Touched(p, c) ==
    Lt(Hypot(Sub(p.x, c.x), Sub(p.y, c.y)), (p.radius + c.radius) * Res)

\* the game gg after collectItem() was called once for each of the
\* collectibles j, j-1, .. 1 of the current state that touches the player p
\* once moved by dtn
RECURSIVE Gathered(_, _, _, _, _)
Gathered(gg, p, j, dtn, coinsEarned) ==
    IF j = 0 THEN gg
    ELSE Gathered(IF Touched(p, MovedItem(g.collectibles[j], dtn))
                  THEN collectItem(gg, g.collectibles[j], coinsEarned) ELSE gg,
                  p, j - 1, dtn, coinsEarned)

\* C14: in an update() that reaches the collectibles, every collectible
\* whose centre is closer to the player than the sum of the radii is
\* removed from the collection and its effect is applied once, whether the
\* player is invulnerable or not: score, coins and multiplier are those of
\* one collectItem() per such collectible, a shield leaves the player
\* invulnerable and an energy item leaves at least its 30 units.
C14_CollectOnContact ==
    [][OneTick /\ hist'.cause # "hazard" =>
         /\ \A j \in 1..Len(g.collectibles) :
                Touched(g'.player, MovedItem(g.collectibles[j], DtOf(g'.deltaTime))) =>
                    /\ \A i \in 1..Len(g'.collectibles) :
                           g'.collectibles[i] # MovedItem(g.collectibles[j], DtOf(g'.deltaTime))
                    /\ g.collectibles[j].type = "shield" => g'.player.invincible
                    /\ g.collectibles[j].type = "energy" => g'.energy >= EnergyGain * DtDen
         /\ \E coinsEarned \in 1..3 :
                /\ g'.score = Gathered(g, g'.player, Len(g.collectibles),
                                       DtOf(g'.deltaTime), coinsEarned).score
                /\ g'.coins = Gathered(g, g'.player, Len(g.collectibles),
                                       DtOf(g'.deltaTime), coinsEarned).coins
                /\ g'.sessionCoins = Gathered(g, g'.player, Len(g.collectibles),
                                              DtOf(g'.deltaTime), coinsEarned).sessionCoins
                /\ g'.level = g.level =>
                       g'.multiplier = Gathered(g, g'.player, Len(g.collectibles),
                                                DtOf(g'.deltaTime), coinsEarned).multiplier]_vars

\* the Crossfire run one update() later: the tank was hit by a hazard and,
\* invulnerable, collected the energy item and the shield item
C14_Witness ==
    /\ hist.ticks = 1 /\ hist.cause = "none" /\ HasPlayer(g)
    /\ g.maxHP = 3 /\ g.hp = 2 /\ g.player.invincible
    /\ g.player.invincibleTimer = ShieldTicks * DtDen
    /\ g.score = BasePoints /\ Len(g.collectibles) = 1 /\ g.collectibles[1].type = "points"


\* the collectibles of the current state that touch the player p once moved
\* by dtn
TouchedItems(p, dtn) ==
    { j \in 1..Len(g.collectibles) : Touched(p, MovedItem(g.collectibles[j], dtn)) }

\* C15: collecting a points item at multiplier m adds floor(100 * m) to the
\* score and one and the same number of 1..3 to coins and to sessionCoins,
\* and changes nothing else of the game (energy, multiplier, hp and the
\* player's invulnerability included); and an update() whose only collected
\* item is a points item changes score and coins that way.
C15_PointsItem ==
    /\ [](HasPlayer(g) =>
            \A coinsEarned \in 1..3 :
                collectItem(g, [type |-> "points"], coinsEarned)
                    = [ g EXCEPT !.score = g.score + (100 * g.multiplier) \div 2,
                                 !.coins = g.coins + coinsEarned,
                                 !.sessionCoins = g.sessionCoins + coinsEarned ])
    /\ [][(/\ OneTick /\ hist'.cause # "hazard"
            /\ \E j \in 1..Len(g.collectibles) :
                   /\ TouchedItems(g'.player, DtOf(g'.deltaTime)) = {j}
                   /\ g.collectibles[j].type = "points")
           => (/\ g'.score = g.score + (100 * g.multiplier) \div 2
               /\ \E coinsEarned \in 1..3 :
                      /\ g'.coins = g.coins + coinsEarned
                      /\ g'.sessionCoins = g.sessionCoins + coinsEarned)]_vars

\* the Sniped run one update() later: the points item was collected at
\* multiplier 1.0 for 100 points and 3 coins
C15_Witness ==
    /\ hist.ticks = 1 /\ HasPlayer(g) /\ g.multiplier = 2
    /\ g.score = BasePoints /\ g.coins = 3 /\ g.sessionCoins = 3
    /\ Len(g.collectibles) = 1 /\ g.collectibles[1].type = "energy"


Abs(a) == IF a < 0 THEN 0 - a ELSE a

\* C16: a hazard at distance d from the player, 0 < d < pullRadius, adds to
\* the player's velocity a vector of magnitude strength * (1 - d /
\* pullRadius) * dt, within 3 units of the velocity resolution, that points
\* from the player to the hazard's centre, and a hazard with d >= pullRadius
\* adds nothing; for pullRadius 200, strength 0.5, d 100 and dt 1 the
\* magnitude is 0.25.
C16_PullMagnitude ==
    /\ [](Force([strength |-> 50, pullRadius |-> 200], 100 * Res, DtDen) = 2500)
    /\ [][hist.ticks = 0 /\ hist'.ticks = 1 =>
            IF /\ 0 < HoleDist(g, g.blackHoles[1])
               /\ HoleDist(g, g.blackHoles[1]) < g.blackHoles[1].pullRadius * Res
            THEN /\ Abs(Hypot(g'.player.vx - g.player.vx, g'.player.vy - g.player.vy) * 100
                        - TDiv(Force(g.blackHoles[1], HoleDist(g, g.blackHoles[1]),
                                     DtOf(g.deltaTime)) * VRes, 100)) <= 300
                 /\ (g'.player.vx - g.player.vx) * (g.blackHoles[1].x - g.player.x) >= 0
                 /\ (g'.player.vy - g.player.vy) * (g.blackHoles[1].y - g.player.y) >= 0
                 /\ Abs((g'.player.vx - g.player.vx) * (g.blackHoles[1].y - g.player.y)
                        - (g'.player.vy - g.player.vy) * (g.blackHoles[1].x - g.player.x))
                      <= 2 * (Abs(g.blackHoles[1].x - g.player.x)
                              + Abs(g.blackHoles[1].y - g.player.y))
                 /\ g'.player.x = g.player.x /\ g'.player.y = g.player.y
            ELSE HoleDist(g, g.blackHoles[1]) # 0 =>
                     g'.player.vx = g.player.vx /\ g'.player.vy = g.player.vy]_vars

\* a player at rest 100 pixels to the left of a hazard of pullRadius 200
\* and strength 0.5, after a pull of 17 ms: 0.25 pixels per tick to the right
C16_Witness ==
    /\ hist.ticks = 1
    /\ g.blackHoles[1].pullRadius = 200 /\ g.blackHoles[1].strength = 50
    /\ g.blackHoles[1].x - g.player.x = 100 * Res /\ g.blackHoles[1].y = g.player.y
    /\ g.deltaTime = 17
    /\ g.player.vx = TDiv(VRes, 4) /\ g.player.vy = 0


\* C17: no division by a zero distance leaves the player's velocity or
\* position, a projectile's velocity or the pointer target undefined: none
\* of them is ever NaN.
C17_NoNaN ==
    /\ HasPlayer(g) =>
           /\ ~IsNaN(g.player.vx) /\ ~IsNaN(g.player.vy)
           /\ ~IsNaN(g.player.x) /\ ~IsNaN(g.player.y)
    /\ \A i \in 1..Len(g.bullets) : ~IsNaN(g.bullets[i].vx) /\ ~IsNaN(g.bullets[i].vy)
    /\ ~IsNaN(g.mouseX) /\ ~IsNaN(g.mouseY)


\* one updateBot() of PilotSpec
PilotStep == hist.ticks = 0 /\ hist'.ticks = 1

\* C18 as stated: with the bot enabled, one hazard whose pull radius covers
\* the player and no projectiles, updateBot() leaves a target away from the
\* player's position, on the side opposite to the hazard, and mouseDown =
\* (energy > 20).
C18_PilotEvades ==
    [][/\ PilotStep /\ Len(g.blackHoles) = 1
       /\ Lt(HoleDist(g, g.blackHoles[1]), g.blackHoles[1].pullRadius * Res) =>
         /\ g'.mouseDown = (g.energy > 20 * DtDen)
         /\ ~IsNaN(g'.mouseX) /\ ~IsNaN(g'.mouseY)
         /\ (g'.mouseX - g.player.x) * (g.player.x - g.blackHoles[1].x)
              + (g'.mouseY - g.player.y) * (g.player.y - g.blackHoles[1].y) > 0]_vars

\* one coordinate of the point 200 pixels from the player's p, straight away
\* from the hazard's h at distance d, kept 50 pixels inside the canvas
Opposite(p, h, d, extent) ==
    Max(50 * Res, Min((extent - 50) * Res, p + TDiv((p - h) * 200 * Res, d)))

\* C18 as amended: with the bot enabled, one hazard within 0.8 of its pull
\* radius of the player and no projectiles, updateBot() sets mouseDown =
\* (energy > 20) and, the distance not being 0, the target to the point 200
\* pixels from the player straight away from the hazard, each coordinate
\* clamped to [50, extent - 50] (to 2 pixels).
C18_PilotEvadesNear ==
    [][/\ PilotStep /\ Len(g.blackHoles) = 1
       /\ Lt(HoleDist(g, g.blackHoles[1]), TDiv(g.blackHoles[1].pullRadius * Res * 8, 10))
       => /\ g'.mouseDown = (g.energy > 20 * DtDen)
          /\ HoleDist(g, g.blackHoles[1]) > 0 =>
                /\ Abs(g'.mouseX - Opposite(g.player.x, g.blackHoles[1].x,
                                            HoleDist(g, g.blackHoles[1]), g.width))
                     <= 2 * Res
                /\ Abs(g'.mouseY - Opposite(g.player.y, g.blackHoles[1].y,
                                            HoleDist(g, g.blackHoles[1]), g.height))
                     <= 2 * Res]_vars

\* a player at mid-canvas with energy 21, a hazard 50 pixels down and to the
\* right of it (30, 40), after updateBot(): the target is 200 pixels up and
\* to the left (120, 160), the button held
C18_Witness ==
    /\ hist.ticks = 1 /\ g.botEnabled /\ g.energy = 21 * DtDen /\ g.mouseDown
    /\ Len(g.blackHoles) = 1
    /\ g.player.x = 500 * Res /\ g.player.y = 500 * Res
    /\ g.blackHoles[1].x = 530 * Res /\ g.blackHoles[1].y = 540 * Res
    /\ Abs(g.mouseX - 380 * Res) <= 2 * Res /\ Abs(g.mouseY - 340 * Res) <= 2 * Res


\* C19: with the bot enabled, the boost decision of an update() is the
\* bot's for the state that update() finds (mouseDown of updateBot(), and
\* energy left), and an input event between two update()s changes neither
\* the target nor the boost inputs that the next update() reads.
C19_PilotOverridesInput ==
    [][/\ OneTick /\ g.botEnabled =>
              g'.player.boosting
                  = (g.energy > 0 /\ \E patrol \in PatrolPhases : updateBot(g, patrol).mouseDown)
       /\ (/\ ~Refreshed /\ hist'.ticks = 0
           /\ g.botEnabled /\ g'.botEnabled
           /\ g.isRunning /\ g'.isRunning /\ HasPlayer(g))
          => /\ g'.mouseX = g.mouseX /\ g'.mouseY = g.mouseY
             /\ g'.mouseDown = g.mouseDown /\ g'.keysSpace = g.keysSpace]_vars


\* the hazards of gg that an update() of dtn leaves alive (lines 855-868)
Survivors(gg, dtn) ==
    { i \in 1..Len(gg.blackHoles) :
        gg.blackHoles[i].lifetime + dtn <= gg.blackHoles[i].maxLifetime }

\* C20: there are never more hazards than min(3 + floor(level / 2), 8),
\* so never more than 8; an update() that runs to its end adds at most one
\* hazard to those its sweep leaves alive, and adds it only when those were
\* fewer than the cap of the level.
C20_HazardCap ==
    /\ [](Len(g.blackHoles) <= HoleCap(g.level) /\ Len(g.blackHoles) <= 8)
    /\ [][(OneTick /\ hist'.overs = hist.overs)
             => (/\ Len(g'.blackHoles)
                      <= Cardinality(Survivors(g, DtOf(g'.deltaTime))) + 1
                 /\ Len(g'.blackHoles) > Cardinality(Survivors(g, DtOf(g'.deltaTime)))
                    => Cardinality(Survivors(g, DtOf(g'.deltaTime))) < HoleCap(g.level))]_vars

\* a run of level 1 at the end of an update() with three hazards alive, the
\* cap of level 1: the third was made by the update() before and has been
\* aged by this one, which could make no fourth
C20_Witness ==
    /\ hist.ticks = 1 /\ g.isRunning /\ g.level = 1
    /\ Len(g.blackHoles) = 3
    /\ g.blackHoles[3].lifetime = DtOf(g.deltaTime) /\ g.deltaTime > 0


\* C21: an update() that lowers hp without ending the run leaves the player
\* invulnerable with the whole grace window of 120 ticks ahead (or the 180
\* of a shield picked up in it), whether a hazard or a projectile hit; while
\* more of the window is left than an update() consumes, that update()
\* leaves hp alone and takes its dt off the window; and the update() that
\* uses the window up clears the flag, unless it picks up a shield or takes
\* a new hit.
C21_GraceWindow ==
    [][(OneTick /\ hist'.overs = hist.overs)
          => /\ g'.hp < g.hp
                  => /\ g'.player.invincible
                     /\ g'.player.invincibleTimer
                            \in {GraceTicks * DtDen, ShieldTicks * DtDen}
             /\ (g.player.invincible /\ g.player.invincibleTimer > DtOf(g'.deltaTime))
                  => /\ g'.hp = g.hp
                     /\ g'.player.invincible
                     /\ g'.player.invincibleTimer
                            \in {g.player.invincibleTimer - DtOf(g'.deltaTime),
                                 ShieldTicks * DtDen}
             /\ (/\ g.player.invincible
                 /\ g.player.invincibleTimer <= DtOf(g'.deltaTime)
                 /\ g'.hp = g.hp
                 /\ g'.player.invincibleTimer # ShieldTicks * DtDen)
                  => ~g'.player.invincible]_vars


\* the run state of the claim: counters and timers at their start values, no
\* entity, full hp of the selected ship, a new player at rest at the centre
Fresh(gg) ==
    /\ gg.score = 0 /\ gg.level = 1 /\ gg.multiplier = 2
    /\ gg.energy = MaxEnergy * DtDen
    /\ gg.spawnTimer = 0 /\ gg.difficultyTimer = 0 /\ gg.sessionCoins = 0
    /\ gg.collectibles = <<>> /\ gg.blackHoles = <<>> /\ gg.bullets = <<>>
    /\ gg.hp = gg.maxHP /\ gg.maxHP = shipTypes[gg.selectedShip].maxHP
    /\ HasPlayer(gg)
    /\ gg.player.x = TDiv(gg.width * Res, 2) /\ gg.player.y = TDiv(gg.height * Res, 2)
    /\ gg.player.vx = 0 /\ gg.player.vy = 0
    /\ ~gg.player.boosting /\ ~gg.player.invincible

\* a step that is a call of startGame()
Starting ==
    /\ now' = now /\ hist'.ticks = 1 /\ hist'.overs = 0 /\ g'.lastTime = now
    /\ \E r \in TickDraws([Reset(g) EXCEPT !.lastTime = now], now) :
        <<g', raf', timeouts', hist'>>
            = << startGame(Event, now, r).g, startGame(Event, now, r).raf,
                 startGame(Event, now, r).timeouts, startGame(Event, now, r).hist >>

\* C22 as stated: when startGame() has returned, from whatever state it was
\* called in, the run state is the fresh one.
C22_StartResetsRun == [][Starting => Fresh(g')]_vars

\* C22: from whatever state startGame() is called in, the state it sets up
\* for the first update() of the run, which it runs itself before it
\* returns, is the fresh one, and the state it returns in is that of this
\* one update() on it.
C22_StartResetsFirstTick ==
    /\ [](Fresh(Reset(g)))
    /\ [][Starting
             => \E r \in TickDraws([Reset(g) EXCEPT !.lastTime = now], now) :
                    g' = update([Event EXCEPT !.g = [Reset(g) EXCEPT !.lastTime = now,
                                                                    !.deltaTime = 0]],
                                r).g]_vars

\* a run restarted while the timeout of the last run's gameOver() is still
\* pending, on a canvas resized since: nothing of the last run is left
C22_Witness ==
    /\ g.isRunning /\ timeouts > 0 /\ hist.overs = 0 /\ hist.ticks = 1
    /\ g.width = 100
    /\ g.score = 0 /\ g.bullets = <<>> /\ g.hp = g.maxHP
    /\ g.player.x = 50 * Res /\ g.player.y = 50 * Res


\* hazard i of the state before the step lies over the player's position
\* after it (the test of line 769 on the integrated position)
Reaching(i) ==
    Lt(Hypot(Sub(g'.player.x, g.blackHoles[i].x), Sub(g'.player.y, g.blackHoles[i].y)),
       g.blackHoles[i].radius * Res)

\* C23: an update() runs the pilot, then the physics, then the collisions,
\* then spawning and difficulty.  So with the pilot enabled the target and
\* the boost input the physics reads are the pilot's decision for the state
\* the update() finds; and the hazard contact is tested on the position the
\* update() integrates: a player left vulnerable and unhurt has no hazard
\* over its new position, and a player hurt in the gravity loop has one.
C23_TickOrder ==
    [][(OneTick /\ hist'.overs = hist.overs)
          => /\ g.botEnabled
                  => \E patrol \in PatrolPhases :
                         /\ updateBot(g, patrol).mouseX = g.mouseX
                         /\ updateBot(g, patrol).mouseY = g.mouseY
                         /\ updateBot(g, patrol).mouseDown = g.mouseDown
             /\ (g'.hp = g.hp /\ ~g'.player.invincible)
                  => \A i \in 1..Len(g.blackHoles) : ~Reaching(i)
             /\ Gravity([g |-> Thrust(g, DtOf(g'.deltaTime)), dead |-> FALSE], 1,
                        DtOf(g'.deltaTime)).g.hp < g.hp
                  => \E i \in 1..Len(g.blackHoles) : Reaching(i)]_vars


\* the collectibles of gg made by the update() that produced gg, for an
\* update() with dt > 0 (line 829 ages every other one)
NewItems(gg) == { i \in 1..Len(gg.collectibles) : gg.collectibles[i].lifetime = 0 }

\* what an update() that runs to its end with dt > 0 does with the spawn
\* timer: when due, the timer is reset and one or two collectibles are
\* added at the end of the list; when not, the timer keeps the dt added and
\* none is added
SpawnTick(due) ==
    (OneTick /\ hist'.overs = hist.overs /\ g'.deltaTime > 0)
        => IF due
           THEN /\ g'.spawnTimer = 0
                /\ Cardinality(NewItems(g')) \in {1, 2}
                /\ Len(g'.collectibles) \in NewItems(g')
           ELSE /\ g'.spawnTimer = g.spawnTimer + DtOf(g'.deltaTime)
                /\ NewItems(g') = {}

\* C24 as stated: the collectibles are spawned in the update() that takes
\* the spawn timer to 60 or beyond.
C24_SpawnAtSixty ==
    [][SpawnTick(g.spawnTimer + DtOf(g'.deltaTime) >= SpawnPeriod * DtDen)]_vars

\* C24: the collectibles are spawned in the update() that takes the spawn
\* timer beyond 60: the timer is reset and one or two are added; an
\* update() that leaves it at 60 or below adds none.
C24_SpawnPastSixty ==
    [][SpawnTick(g.spawnTimer + DtOf(g'.deltaTime) > SpawnPeriod * DtDen)]_vars

\* an update() has taken the spawn timer past 60, reset it and added two
\* collectibles
C24_Witness ==
    /\ hist.ticks = 1 /\ g.spawnTimer = 0 /\ g.deltaTime > 0
    /\ Len(g.collectibles) = 2 /\ NewItems(g) = {1, 2}

\* what an update() that runs to its end does with the difficulty timer
LevelTick(due) ==
    (OneTick /\ hist'.overs = hist.overs)
        => IF due
           THEN /\ g'.difficultyTimer = 0
                /\ g'.level = g.level + 1
                /\ g'.multiplier = Min(g.multiplier + 1, MaxMultiplier * 2)
           ELSE /\ g'.difficultyTimer = g.difficultyTimer + DtOf(g'.deltaTime)
                /\ g'.level = g.level

\* C25 as stated: the level goes up in the update() that takes the
\* difficulty timer to 1800 or beyond.
C25_LevelAt1800 ==
    [][LevelTick(g.difficultyTimer + DtOf(g'.deltaTime) >= LevelPeriod * DtDen)]_vars

\* C25: the level goes up, by one, in the update() that takes the
\* difficulty timer beyond 1800, which resets the timer and raises the
\* multiplier by 0.5 up to 10; every other update() leaves the level alone,
\* and no frame lowers it.
C25_LevelPast1800 ==
    /\ [][LevelTick(g.difficultyTimer + DtOf(g'.deltaTime) > LevelPeriod * DtDen)]_vars
    /\ [][g'.level >= g.level]_vars

\* an update() has taken the difficulty timer past 1800 at x9.5: level 3,
\* the multiplier at its cap
C25_Witness ==
    /\ hist.ticks = 1 /\ g.difficultyTimer = 0 /\ g.level = 3
    /\ g.multiplier = MaxMultiplier * 2


\* the category of the claim for a draw in thousandths: the first cumulative
\* threshold the draw is below, and the last category when below none
ByThreshold(random) ==
    IF random < 400 THEN "energy"
    ELSE IF random < 750 THEN "points"
    ELSE IF random < 900 THEN "multiplier"
    ELSE "shield"

NearPlayer(gg, pts, n) ==
    Lt(Hypot(Sub(HoleCoord(pts[n][1], gg.width), gg.player.x),
             Sub(HoleCoord(pts[n][2], gg.height), gg.player.y)), 200 * Res)

\* a spawnBlackHole() on a canvas of the sizes in dims stops within 50
\* attempts and adds exactly one hazard, at least 100 from every edge and at
\* least 200 from the player unless all 50 attempts were nearer
PlacedWell(dims) ==
    \A pts \in HoleRuns :
        (/\ hist'.ticks = 1
         /\ <<g.width, g.height>> \in dims
         /\ g' = spawnBlackHole(g, [ NoDraw EXCEPT !.hole = TRUE,
                                                   !.hx = Sampling(g, pts, 1).hx,
                                                   !.hy = Sampling(g, pts, 1).hy ]))
            => /\ Sampling(g, pts, 1).attempts <= 50
               /\ Len(g'.blackHoles) = Len(g.blackHoles) + 1
               /\ \/ ~NearPlayer(g, pts, Sampling(g, pts, 1).attempts)
                  \/ /\ Sampling(g, pts, 1).attempts = 50
                     /\ \A n \in 1..50 : NearPlayer(g, pts, n)
               /\ g'.blackHoles[Len(g'.blackHoles)].x >= 100 * Res
               /\ g'.blackHoles[Len(g'.blackHoles)].x <= (g.width - 100) * Res
               /\ g'.blackHoles[Len(g'.blackHoles)].y >= 100 * Res
               /\ g'.blackHoles[Len(g'.blackHoles)].y <= (g.height - 100) * Res

\* C28: hazard placement stops within 50 samples and adds exactly one
\* hazard, at least 200 from the player unless all 50 samples were nearer
\* (then the last one is taken), and always at least 100 from every edge of
\* the play area.
C28_HazardPlacement == [][PlacedWell(Sizes \cup { <<1000, 600>> })]_vars

\* the state the hazard loop of lines 852-870 finds in an update() of the
\* state g with dt = dtn / DtDen that no hazard ends
AtHazards(dtn, coins) ==
    AllCollectibles(
        MovePlayer(Gravity([g |-> Thrust(g, dtn), dead |-> FALSE], 1, dtn).g, dtn),
        dtn, coins)

\* the hazards of gg whose projectile timer reaches their interval with dtn
Due(gg, dtn) ==
    { i \in 1..Len(gg.blackHoles) :
        gg.blackHoles[i].shootTimer + dtn >= gg.blackHoles[i].shootInterval }

\* the hazards of gg that are not beyond their maxLifetime after dtn
Staying(gg, dtn) ==
    { i \in 1..Len(gg.blackHoles) :
        gg.blackHoles[i].lifetime + dtn <= gg.blackHoles[i].maxLifetime }

\* b is a projectile of life 300 at the hazard hole, flying towards the
\* player of gg at 4 + 0.3 * level (each component within 0.04 of it)
AimedFrom(gg, b, hole) ==
    /\ b.x = hole.x /\ b.y = hole.y /\ b.life = 300 * DtDen
    /\ ~IsNaN(b.vx) /\ ~IsNaN(b.vy)
    /\ Abs(b.vx * HoleDist(gg, hole) - (gg.player.x - hole.x) * TDiv((40 + 3 * gg.level) * VRes, 10))
          <= 4 * HoleDist(gg, hole)
    /\ Abs(b.vy * HoleDist(gg, hole) - (gg.player.y - hole.y) * TDiv((40 + 3 * gg.level) * VRes, 10))
          <= 4 * HoleDist(gg, hole)

\* what the hazard loop makes, as hh, of the state gg: one projectile for
\* each hazard that is due and none for the others, the timers of the due
\* hazards back at 0 and the others dtn further, every interval 40 or more
FiredWhenDue(gg, hh, dtn) ==
    /\ Len(hh.bullets) = Len(gg.bullets) + Cardinality(Due(gg, dtn))
    /\ SubSeq(hh.bullets, 1, Len(gg.bullets)) = gg.bullets
    /\ \A j \in (Len(gg.bullets) + 1)..Len(hh.bullets) :
           \E i \in Due(gg, dtn) : AimedFrom(gg, hh.bullets[j], gg.blackHoles[i])
    /\ \A i \in Due(gg, dtn) :
           \E j \in (Len(gg.bullets) + 1)..Len(hh.bullets) :
               AimedFrom(gg, hh.bullets[j], gg.blackHoles[i])
    /\ Len(hh.blackHoles) = Cardinality(Staying(gg, dtn))
    /\ \A i \in Staying(gg, dtn) :
           /\ hh.blackHoles[Cardinality({k \in Staying(gg, dtn) : k <= i})].shootTimer
                 = IF i \in Due(gg, dtn) THEN 0 ELSE gg.blackHoles[i].shootTimer + dtn
           /\ hh.blackHoles[Cardinality({k \in Staying(gg, dtn) : k <= i})].shootInterval
                 >= 40 * DtDen

\* C27: in every tick each hazard whose projectile timer has reached its
\* interval fires exactly one projectile, of life 300 and speed
\* 4 + 0.3 * level, aimed at the player's position of that moment, and has
\* its timer reset to 0; the other hazards fire none.  The interval of every
\* hazard is at least 40 at all times, so a hazard's shots are at least 40
\* accumulated ticks apart.
C27_HazardFire ==
    /\ [](\A i \in 1..Len(g.blackHoles) : g.blackHoles[i].shootInterval >= 40 * DtDen)
    /\ [][(OneTick /\ hist'.cause # "hazard")
            => /\ \A coins \in CoinDraws, jitter \in Jitters :
                      FiredWhenDue(AtHazards(DtOf(g'.deltaTime), coins),
                                   AllBlackHoles(AtHazards(DtOf(g'.deltaTime), coins),
                                                 DtOf(g'.deltaTime), jitter),
                                   DtOf(g'.deltaTime))
               /\ \E coins \in CoinDraws, jitter \in Jitters :
                      SubSeq(g'.blackHoles, 1,
                             Cardinality(Staying(g, DtOf(g'.deltaTime))))
                        = AllBlackHoles(AtHazards(DtOf(g'.deltaTime), coins),
                                        DtOf(g'.deltaTime), jitter).blackHoles]_vars

\* the evasion vector of lines 535-565 in the state g
Evasion == Evade(g, Threats(g), 1, [x |-> 0, y |-> 0, inDanger |-> FALSE])

\* the decision of the claim: flee along a non-zero evasion vector, else
\* chase the best collectible if there is one, else patrol
Decided(ev, best, patrol) ==
    IF ev.x # 0 \/ ev.y # 0 THEN Flee(g, ev, Hypot(ev.x, ev.y))
    ELSE IF best.index # 0 THEN Chase(g, g.collectibles[best.index])
    ELSE Patrol(g, patrol)

\* C29: the pilot decides by the evasion vector itself: non-zero, the target
\* is 200 from the player along it and the boost is (energy > 20); zero (no
\* threat in range, or repulsions that cancel exactly), the target is the
\* best collectible if there is one, with the boost (distance > 200 and
\* energy > 30), and else the patrol point with no boost.  (The target is
\* taken after lines 596-597 have kept it in bounds, and threats at
\* distance 0 are left out.)
C29_PilotDecision ==
    [][(PilotStep /\ ~IsNaN(Evasion.x) /\ ~IsNaN(Evasion.y))
          => \E patrol \in PatrolPhases :
                 g' = InBounds(Decided(Evasion,
                                       BestCollectible(g, 1, [index |-> 0, score |-> 0]),
                                       patrol))]_vars

\* the accumulated dt an entity of the state gg has left: a projectile its
\* life, a collectible what it lacks to 600, a hazard what it lacks to its
\* maxLifetime
LeftOfBullets(gg) == { gg.bullets[i].life : i \in 1..Len(gg.bullets) }
LeftOfItems(gg) ==
    { 600 * DtDen - gg.collectibles[i].lifetime : i \in 1..Len(gg.collectibles) }
LeftOfHoles(gg) ==
    { gg.blackHoles[i].maxLifetime - gg.blackHoles[i].lifetime : i \in 1..Len(gg.blackHoles) }

\* C30: no transient entity lives forever while update()s with dt > 0 keep
\* coming.  Every projectile present has between 0 and 300 ticks left, every
\* collectible between 0 and 600, every hazard between 0 and its
\* maxLifetime, which is below 800; and an update() with dt > 0 that runs to
\* its end leaves only entities it made itself and entities that had more
\* than dt left (a projectile), or dt or more (a collectible, a hazard), now
\* with dt less, whether the player is invulnerable or not.
C30_NothingLivesForever ==
    /\ [](/\ \A t \in LeftOfBullets(g) : 0 < t /\ t <= 300 * DtDen
          /\ \A t \in LeftOfItems(g) : 0 <= t /\ t <= 600 * DtDen
          /\ \A i \in 1..Len(g.blackHoles) :
                 /\ 0 <= g.blackHoles[i].lifetime
                 /\ g.blackHoles[i].lifetime <= g.blackHoles[i].maxLifetime
                 /\ g.blackHoles[i].maxLifetime < 800 * DtDen)
    /\ [][(OneTick /\ hist'.overs = hist.overs /\ g'.deltaTime > 0)
            => /\ \A t \in LeftOfBullets(g') :
                      \/ t = 300 * DtDen - DtOf(g'.deltaTime)
                      \/ t + DtOf(g'.deltaTime) \in LeftOfBullets(g)
               /\ \A t \in LeftOfItems(g') :
                      \/ t = 600 * DtDen
                      \/ t + DtOf(g'.deltaTime) \in LeftOfItems(g)
               /\ \A i \in 1..Len(g'.blackHoles) :
                      \/ g'.blackHoles[i].lifetime = 0
                      \/ g'.blackHoles[i].maxLifetime - g'.blackHoles[i].lifetime
                            + DtOf(g'.deltaTime) \in LeftOfHoles(g)]_vars

\* an update() has run with the player invulnerable and a projectile over
\* it: the projectile is still there and has aged
C30_Witness ==
    /\ hist.ticks = 1 /\ hist.cause = "none" /\ HasPlayer(g) /\ g.player.invincible
    /\ \E i \in 1..Len(g.bullets) :
           /\ Lt(Hypot(Sub(g.player.x, g.bullets[i].x), Sub(g.player.y, g.bullets[i].y)),
                 (g.player.radius + g.bullets[i].radius) * Res)
           /\ g.bullets[i].life < 299 * DtDen

\* C31: a run ends only by its own fatal damage or by the menu or quit
\* button; the callback that a game over scheduled 1500 ms ahead does not
\* stop a run started after that game over.  A run that is running has not
\* had its game over, so a callback that fires during it was scheduled
\* before it started.
C31_RunOutlivesOldTimeout ==
    [][(g.isRunning /\ ~g'.isRunning)
          => \/ hist'.overs = hist.overs + 1
             \/ /\ hist'.events = hist.events + 1
                /\ timeouts' = timeouts
                /\ g' = showMenu(Event).g]_vars

\* C32: with the pilot disabled boost is engaged only by human input: an
\* update() that finds the pilot disabled leaves the player boosting only
\* if the pointer button or a touch is down or Space is held, also when the
\* pilot had set mouseDown before it was disabled.
C32_BoostByHumanOnly ==
    [][(hist'.ticks > 0 /\ ~g.botEnabled /\ ~g'.botEnabled
          /\ hist'.cause = "none" /\ HasPlayer(g') /\ g'.player.boosting)
          => hist'.held \/ g'.keysSpace]_vars

\* shipId is in the unlocked list of gg
Unlocked(gg, shipId) == \E i \in 1..Len(gg.unlockedShips) : gg.unlockedShips[i] = shipId

\* C33: through every sequence of ship-card clicks, pickups and runs the
\* coins never go below 0, no ship is in the unlocked list twice, the
\* selected ship is unlocked and so is the ship of every run; and a step
\* changes the unlocked list only by adding one locked ship whose full price
\* was there and is taken off the coins, and takes coins off only so.
C33_Economy ==
    /\ [](/\ g.coins >= 0
          /\ \A i, j \in 1..Len(g.unlockedShips) :
                 (g.unlockedShips[i] = g.unlockedShips[j]) => (i = j)
          /\ Unlocked(g, g.selectedShip)
          /\ (HasPlayer(g) => Unlocked(g, g.player.shipType)))
    /\ [][ /\ (g'.unlockedShips # g.unlockedShips)
               => (\E shipId \in Ships :
                      /\ ~Unlocked(g, shipId)
                      /\ g'.unlockedShips = Append(g.unlockedShips, shipId)
                      /\ g.coins >= shipTypes[shipId].price
                      /\ g'.coins = g.coins - shipTypes[shipId].price)
           /\ (g'.coins < g.coins) => (g'.unlockedShips # g.unlockedShips)
           /\ (HasPlayer(g') /\ (~HasPlayer(g) \/ g'.player.shipType # g.player.shipType))
               => (g'.player.shipType = g.selectedShip)]_vars

\* the 397 coins and the 3 of a points item have paid the 400 of the
\* balanced ship, no coin more: it is unlocked and selected, 0 coins left
C33_Witness ==
    /\ g.coins = 0 /\ g.sessionCoins = 3
    /\ g.unlockedShips = <<"speeder", "balanced">> /\ g.selectedShip = "balanced"


=============================================================================
